---------------------------- MODULE Spec2Model ----------------------------
(***************************************************************************)
(* A model of repESP: charge extraction from Gaussian/AIMAll text output   *)
(* (src/charges.py), the RESP equivalence resolver (src/repESP/resp.py)    *)
(* and the QTAIM basin voting of src/repESP/cube_helpers.py.               *)
(*                                                                         *)
(* Text is modelled as TLA+ strings.  A file is a sequence of lines, each  *)
(* carrying its own "\n" (the last line may lack it), and a stream         *)
(* position is a character offset, as in Python for ASCII text with Unix   *)
(* line ends.  Python floats are modelled as exact rationals <<n, d>>.     *)
(***************************************************************************)
EXTENDS Integers, Sequences, FiniteSets, TLC

(***************************************************************************)
(* Bounds of the model.                                                    *)
(***************************************************************************)
MaxAtoms == 2

(***************************************************************************)
(* Python string primitives.                                               *)
(***************************************************************************)
Min(a, b) == IF a <= b THEN a ELSE b

Max(a, b) == IF a >= b THEN a ELSE b

Whitespace == {" ", "\t", "\n"}

Char(s, i) == SubSeq(s, i, i)

\* s[:n]
Prefix(s, n) == SubSeq(s, 1, Min(n, Len(s)))

\* s[-n:]
Suffix(s, n) == SubSeq(s, Max(1, Len(s) - n + 1), Len(s))

\* s[-n] (a single character) of a string of at least n characters.
CharFromEnd(s, n) == Char(s, Len(s) - n + 1)

RECURSIVE RStripSet(_, _)
RStripSet(s, chars) ==
    IF Len(s) > 0 /\ Char(s, Len(s)) \in chars
    THEN RStripSet(SubSeq(s, 1, Len(s) - 1), chars)
    ELSE s

\* str.rstrip('\n')
RStripNL(s) == RStripSet(s, {"\n"})

\* str.rstrip()
RStrip(s) == RStripSet(s, Whitespace)

\* str.split(): the maximal runs of non-whitespace characters, in order.
\* i is the character looked at and start the first character of the run it
\* belongs to (0 between runs).
RECURSIVE SplitFrom(_, _, _, _)
SplitFrom(s, i, start, acc) ==
    IF i > Len(s)
    THEN IF start = 0 THEN acc ELSE Append(acc, SubSeq(s, start, Len(s)))
    ELSE IF Char(s, i) \in Whitespace
         THEN SplitFrom(s, i + 1, 0,
                        IF start = 0 THEN acc
                        ELSE Append(acc, SubSeq(s, start, i - 1)))
         ELSE SplitFrom(s, i + 1, IF start = 0 THEN i ELSE start, acc)

Split(s) == SplitFrom(s, 1, 0, <<>>)

Digits == {"0", "1", "2", "3", "4", "5", "6", "7", "8", "9"}

DigitVal(c) ==
    CASE c = "0" -> 0 [] c = "1" -> 1 [] c = "2" -> 2 [] c = "3" -> 3
      [] c = "4" -> 4 [] c = "5" -> 5 [] c = "6" -> 6 [] c = "7" -> 7
      [] c = "8" -> 8 [] c = "9" -> 9

AllDigits(s) == Len(s) > 0 /\ \A i \in 1..Len(s) : Char(s, i) \in Digits

RECURSIVE DigitsVal(_)
DigitsVal(s) ==
    IF s = "" THEN 0
    ELSE 10 * DigitsVal(SubSeq(s, 1, Len(s) - 1)) + DigitVal(Char(s, Len(s)))

HasSign(s) == Len(s) > 0 /\ Char(s, 1) \in {"-", "+"}

Unsigned(s) == IF HasSign(s) THEN SubSeq(s, 2, Len(s)) ELSE s

Sign(s) == IF Len(s) > 0 /\ Char(s, 1) = "-" THEN -1 ELSE 1

\* int(s) for a token without surrounding whitespace: an optional sign and
\* decimal digits; anything else is a ValueError (ok = FALSE).
ParseInt(s) ==
    IF AllDigits(Unsigned(s))
    THEN [ok |-> TRUE, val |-> Sign(s) * DigitsVal(Unsigned(s))]
    ELSE [ok |-> FALSE, val |-> 0]

RECURSIVE Pow10(_)
Pow10(n) == IF n = 0 THEN 1 ELSE 10 * Pow10(n - 1)

RECURSIVE GCD(_, _)
GCD(a, b) == IF b = 0 THEN a ELSE GCD(b, a % b)

Abs(x) == IF x < 0 THEN -x ELSE x

\* The rational n/d in lowest terms, d > 0.
Rat(n, d) ==
    LET g == GCD(Abs(n), Abs(d))
        s == IF d < 0 THEN -1 ELSE 1
    IN  <<(s * n) \div g, (s * d) \div g>>

RECURSIVE FindChar(_, _, _)
FindChar(s, c, i) ==
    IF i > Len(s) THEN 0
    ELSE IF Char(s, i) = c THEN i ELSE FindChar(s, c, i + 1)

\* float(s) for plain decimal notation: [sign] digits [.digits] or
\* [sign] [digits] . digits.  The tokens of the model's files are of this
\* shape or contain a letter; exponents, "inf" and "nan" do not occur.
ParseFloat(s) ==
    LET u == Unsigned(s)
        p == FindChar(u, ".", 1)
        ip == IF p = 0 THEN u ELSE SubSeq(u, 1, p - 1)
        fp == IF p = 0 THEN "" ELSE SubSeq(u, p + 1, Len(u))
        ok == /\ Len(ip) + Len(fp) > 0
              /\ \A i \in 1..Len(ip) : Char(ip, i) \in Digits
              /\ \A i \in 1..Len(fp) : Char(fp, i) \in Digits
    IN  IF ok
        THEN [ok |-> TRUE,
              val |-> Rat(Sign(s) * DigitsVal(ip \o fp), Pow10(Len(fp)))]
        ELSE [ok |-> FALSE, val |-> <<0, 1>>]

\* float(s) for a token that may carry an exponent: mantissa E exponent.
PyFloat(s) ==
    LET e == IF FindChar(s, "E", 1) # 0 THEN FindChar(s, "E", 1)
             ELSE FindChar(s, "e", 1)
        m == ParseFloat(SubSeq(s, 1, e - 1))
        x == ParseInt(SubSeq(s, e + 1, Len(s)))
    IN  IF e = 0 THEN ParseFloat(s)
        ELSE IF ~m.ok \/ ~x.ok THEN [ok |-> FALSE, val |-> <<0, 1>>]
        ELSE [ok |-> TRUE,
              val |-> IF x.val >= 0
                      THEN Rat(m.val[1] * Pow10(x.val), m.val[2])
                      ELSE Rat(m.val[1], m.val[2] * Pow10(-x.val))]

\* str(n) for an integer.
RECURSIVE NatToStr(_)
NatToStr(n) ==
    LET d == <<"0", "1", "2", "3", "4", "5", "6", "7", "8", "9">>
    IN  IF n < 10 THEN d[n + 1] ELSE NatToStr(n \div 10) \o d[(n % 10) + 1]

IntToStr(n) == IF n < 0 THEN "-" \o NatToStr(-n) ELSE NatToStr(n)


(***************************************************************************)
(* Exceptions: the class raised and its formatted message.                 *)
(***************************************************************************)
NoExc == [kind |-> "none", msg |-> ""]

Exc(kind, msg) == [kind |-> kind, msg |-> msg]

(***************************************************************************)
(* cube_helpers.Atom and Molecule.                                         *)
(***************************************************************************)
periodic ==
    <<"H", "He", "Li", "Be", "B", "C", "N", "O", "F", "Ne",
      "Na", "Mg", "Al", "Si", "P", "S", "Cl", "Ar", "XX">>

\* Atom.periodic[atomic_no-1][0], with Python's indexing of a list (negative
\* indices count from the end), and str(atomic_no) on IndexError.
Identity(atomic_no) ==
    LET idx == atomic_no - 1
        n == Len(periodic)
    IN  IF 0 <= idx /\ idx < n THEN periodic[idx + 1]
        ELSE IF -n <= idx /\ idx < 0 THEN periodic[n + idx + 1]
        ELSE IntToStr(atomic_no)

\* An optional list parameter: None, or a list.
None == [given |-> FALSE, list |-> <<>>]

Given(list) == [given |-> TRUE, list |-> list]

\* The optional parameter coords_in_bohr: None, or a bool.
Unspecified == [given |-> FALSE, value |-> FALSE]

Specified(value) == [given |-> TRUE, value |-> value]

\* Atom.__init__(label, atomic_no): charges starts as the empty dict and
\* coords is None.
Atom(label, atomic_no) ==
    [label |-> label, atomic_no |-> atomic_no,
     identity |-> Identity(atomic_no), charges |-> <<>>, coords |-> None]

NoAtom == Atom(0, 0)

\* Atom.__init__(label, atomic_no, coords, coords_in_bohr): a coordinate is
\* kept as the number given and whether it was multiplied by
\* angstrom_per_bohr.
Atom_init(label, atomic_no, coords, coords_in_bohr) ==
    IF coords.given /\ ~coords_in_bohr.given
    THEN [exc |-> Exc("ValueError",
                      "When creating an Atom with coordinates, the units must be specified through the coords_in_bohr parameter."),
          atom |-> NoAtom]
    ELSE [exc |-> NoExc,
          atom |-> [Atom(label, atomic_no) EXCEPT
                       !.coords =
                           IF coords.given
                           THEN Given([k \in 1..Len(coords.list) |->
                                          [number |-> coords.list[k],
                                           times_angstrom_per_bohr |->
                                               coords_in_bohr.value]])
                           ELSE None]]

\* The Molecule a Cube builds from its atom lines: labels 1..n in order.
MoleculeOf(atomic_nos) ==
    [i \in 1..Len(atomic_nos) |-> Atom(i, atomic_nos[i])]

\* A dict holding the one key.
DictSet_OnlyKey(d, key, value) == [k \in {key} |-> value]

\* d[key] = value on a dict modelled as a function.
DictSet(d, key, value) ==
    [k \in (DOMAIN d) \cup {key} |-> IF k = key THEN value ELSE d[k]]

(***************************************************************************)
(* src/charges.py                                                          *)
(***************************************************************************)
esp_type_in_log(line) ==
    CASE line = " Merz-Kollman atomic radii used." -> "mk"
      [] line = " Francl (CHELP) atomic radii used." -> "chelp"
      [] line = " Breneman (CHELPG) radii used." -> "chelpg"
      [] OTHER -> "none"

esp_charges == {"mk", "chelp", "chelpg"}

\* `next_line[:8] not in charge_termination_line[input_type]`: membership in
\* a tuple for 'log', and Python's substring test for 'sumviz', whose entry
\* is a plain string.
RECURSIVE IsSubstringFrom(_, _, _)
IsSubstringFrom(sub, s, i) ==
    IF i + Len(sub) - 1 > Len(s) THEN FALSE
    ELSE IF SubSeq(s, i, i + Len(sub) - 1) = sub THEN TRUE
    ELSE IsSubstringFrom(sub, s, i + 1)

IsSubstring(sub, s) == IsSubstringFrom(sub, s, 1)

SumvizTermination == "--------"

LogTermination == {" Sum of ", " ======="}

InTerminationLog(prefix) == prefix \in LogTermination

InTermination(prefix, input_type) ==
    IF input_type = "sumviz" THEN IsSubstring(prefix, SumvizTermination)
    ELSE InTerminationLog(prefix)

\* str(charge_termination_line[input_type]) as the message shows it.
TerminationRepr(input_type) ==
    IF input_type = "sumviz" THEN "--------"
    ELSE "(' Sum of ', ' =======')"

\* _charge_section_header_in_log; "" stands for NotImplementedError.
ImplementedInLog == {"mulliken", "nbo"} \cup esp_charges

charge_section_header_in_log(charge_type) ==
    CASE charge_type = "mulliken" -> " Mulliken charges:"
      [] charge_type \in esp_charges -> " ESP charges:"
      [] charge_type = "nbo" -> " Summary of Natural Population Analysis:"
      [] OTHER -> ""

(***************************************************************************)
(* A text stream over the file's lines.  The position is the number of     *)
(* whole lines consumed: the code reads whole lines only, and seeks only   *)
(* to offsets it computed as sums of line lengths.                         *)
(***************************************************************************)
\* The number of whole lines that end at character offset `offset`, found
\* by adding line lengths from line k+1 on (`off` is the offset after k
\* lines).
RECURSIVE LinesBefore(_, _, _, _)
LinesBefore(lines, offset, k, off) ==
    IF off >= offset \/ k >= Len(lines) THEN k
    ELSE LinesBefore(lines, offset, k + 1, off + Len(lines[k + 1]))

\* file_object.seek(offset)
Seek(lines, offset) == LinesBefore(lines, offset, 0, 0)

\* file_object.readline() after pos lines: '' at end of file.
ReadLine(lines, pos) == IF pos < Len(lines) THEN lines[pos + 1] ELSE ""

\* The position after one readline().
AfterLine(lines, pos) == IF pos < Len(lines) THEN pos + 1 ELSE pos

\* n calls of readline().
SkipLines(lines, pos, n) == Min(pos + n, Len(lines))

(***************************************************************************)
(* _goto_in_log: one scan collects the offset after every header line and, *)
(* for an ESP charge type, the variant named by every marker line; the     *)
(* offsets are then filtered by position in the two lists.                 *)
(***************************************************************************)
RECURSIVE ScanLog(_, _, _, _, _, _)
ScanLog(charge_type, lines, k, offset, result, esp_types) ==
    IF k > Len(lines) THEN [result |-> result, esp_types |-> esp_types]
    ELSE LET off == offset + Len(lines[k])
             line == RStripNL(lines[k])
             isHeader == RStrip(line) = charge_section_header_in_log(charge_type)
             isMarker == /\ charge_type \in esp_charges
                         /\ esp_type_in_log(line) # "none"
         IN  ScanLog(charge_type, lines, k + 1, off,
                     IF isHeader THEN Append(result, off) ELSE result,
                     IF isMarker THEN Append(esp_types, esp_type_in_log(line))
                     ELSE esp_types)

\* [elem for i, elem in enumerate(result) if esp_types[i] == charge_type]
FilterByEspType(result, esp_types, charge_type) ==
    SelectSeq([i \in 1..Len(result) |-> <<result[i], esp_types[i]>>],
              LAMBDA p : p[2] = charge_type)

FilteredOffsets(result, esp_types, charge_type) ==
    LET kept == FilterByEspType(result, esp_types, charge_type)
    IN  [i \in 1..Len(kept) |-> kept[i][1]]

\* An index past either end taken as the nearest end.
PyIndex_Clamped(n, index) ==
    IF 0 <= index /\ index < n THEN index + 1
    ELSE IF -n <= index /\ index < 0 THEN n + index + 1
    ELSE IF index < 0 THEN 1 ELSE n

\* Python's list[index]: 0 stands for IndexError, otherwise the 1-based
\* position selected.
PyIndex(n, index) ==
    IF 0 <= index /\ index < n THEN index + 1
    ELSE IF -n <= index /\ index < 0 THEN n + index + 1
    ELSE 0

\* One line skipped whatever the charge type.
LinesToSkip_AlwaysOne(charge_type) == 1

LinesToSkip(charge_type) == IF charge_type = "nbo" THEN 5 ELSE 1

\* Only missing markers counted as a mismatch.
EspTypesMismatch_Fewer(result, esp_types) == Len(esp_types) < Len(result)

\* len(esp_types) != len(result)
EspTypesMismatch(result, esp_types) == Len(esp_types) # Len(result)

\* The outcome of _goto_in_log: the exception raised (or none), the stream
\* position it leaves, and the locals `result` (after filtering) and
\* `esp_types`, exposed for the properties.
GotoOutcome(exc, pos, result, esp_types) ==
    [exc |-> exc, pos |-> pos, result |-> result, esp_types |-> esp_types]

goto_in_log(charge_type, lines, occurence) ==
    IF Len(lines) > 0 /\ charge_type \notin ImplementedInLog
    THEN GotoOutcome(
             Exc("NotImplementedError",
                 "Charge type '" \o charge_type \o "' is not implemented."),
             1, <<>>, <<>>)
    ELSE
    LET scan == ScanLog(charge_type, lines, 1, 0, <<>>, <<>>)
        eof == Len(lines)
    IN  IF charge_type \in esp_charges
             /\ EspTypesMismatch(scan.result, scan.esp_types)
        THEN GotoOutcome(
                 Exc("InputFormatError",
                     "Information about the type of some ESP charges was not recognized."),
                 eof, scan.result, scan.esp_types)
        ELSE
        LET result == IF charge_type \in esp_charges
                      THEN FilteredOffsets(scan.result, scan.esp_types,
                                           charge_type)
                      ELSE scan.result
            sel == PyIndex(Len(result), occurence)
        IN  IF result = <<>>
            THEN GotoOutcome(
                     Exc("InputFormatError",
                         "Output about charge type '" \o charge_type
                             \o "' not found."),
                     eof, result, scan.esp_types)
            ELSE IF sel = 0
            THEN GotoOutcome(
                     Exc("IndexError",
                         "Cannot find occurence '" \o IntToStr(occurence)
                             \o "' in a list of recognized pieces of output about charges, whose length is "
                             \o IntToStr(Len(result)) \o "."),
                     eof, result, scan.esp_types)
            ELSE GotoOutcome(
                     NoExc,
                     SkipLines(lines, Seek(lines, result[sel]),
                               LinesToSkip(charge_type)),
                     result, scan.esp_types)

\* _goto_in_sumviz: reads until the sentinel line; at end of file readline
\* keeps returning '' and the loop never ends ("Hang").
SumvizSentinel == "Some Atomic Properties:"

SumvizSkip == 9

RECURSIVE FindSentinel(_, _)
FindSentinel(lines, k) ==
    IF k > Len(lines) THEN 0
    ELSE IF RStripNL(lines[k]) = SumvizSentinel THEN k
    ELSE FindSentinel(lines, k + 1)

goto_in_sumviz(charge_type, lines) ==
    LET k == FindSentinel(lines, 1)
    IN  IF k = 0
        THEN GotoOutcome(Exc("Hang", ""), Len(lines), <<>>, <<>>)
        ELSE GotoOutcome(NoExc, SkipLines(lines, k, SumvizSkip), <<>>, <<>>)

(***************************************************************************)
(* The charge-line parsers.  ok = FALSE carries the exception the parsing  *)
(* raised (ValueError from unpacking, int() or float(); IndexError from    *)
(* indexing a one-character token).                                        *)
(***************************************************************************)
Parsed(label, letter, charge) ==
    [exc |-> NoExc, label |-> label, letter |-> letter, charge |-> charge]

ParseFailed(kind) ==
    [exc |-> Exc(kind, ""), label |-> 0, letter |-> "", charge |-> <<0, 1>>]

\* label = int(label); charge = float(charge); return label, letter, charge
Converted(label, letter, charge) ==
    IF ~ParseInt(label).ok \/ ~ParseFloat(charge).ok
    THEN ParseFailed("ValueError")
    ELSE Parsed(ParseInt(label).val, letter, ParseFloat(charge).val)

log_charge_line(line, charge_type) ==
    LET t == Split(line)
    IN  IF charge_type = "nbo"
        THEN IF Len(t) < 3 THEN ParseFailed("ValueError")
             ELSE Converted(t[2], t[1], t[3])
        ELSE IF Len(t) # 3 THEN ParseFailed("ValueError")
             ELSE Converted(t[1], t[2], t[3])

sumviz_charge_line(line, charge_type) ==
    LET t == Split(line)
    IN  IF Len(t) < 2 THEN ParseFailed("ValueError")
        ELSE IF Len(t[1]) < 2 THEN ParseFailed("IndexError")
        ELSE Converted(Char(t[1], 2), Char(t[1], 1), t[2])

charge_line(input_type, line, charge_type) ==
    IF input_type = "sumviz" THEN sumviz_charge_line(line, charge_type)
    ELSE log_charge_line(line, charge_type)

(***************************************************************************)
(* _get_charges_from_lines: one row per atom, then the termination line.   *)
(* The outcome carries the exception, the local list `charges` as it stood *)
(* when the function ended, the stream position and the 0-based index of   *)
(* the row being handled when an exception was raised.                     *)
(***************************************************************************)
Extraction(exc, charges, pos, row) ==
    [exc |-> exc, charges |-> charges, pos |-> pos, row |-> row]

LabelOrderMsg ==
    "Charge section is not given in order of Gaussian labels. This may be a feature of the program which generated the charges output but is not supported in this program."

\* The atom number the identity message shows: int(label)+1.
IdentityMsgAtom(label) == label + 1

IdentityMsg(label, identity, letter) ==
    "Atom " \o IntToStr(IdentityMsgAtom(label)) \o " in atom list is given as "
        \o identity \o " but input file expected " \o letter

TerminationMsg(input_type, got) ==
    "Expected end of charges ('" \o TerminationRepr(input_type)
        \o "'), instead got: '" \o got \o "'"

\* The two checks of a parsed row against atom i+1 of the molecule.
LabelInOrder_AtLeast(label, i) == label >= i + 1

LabelInOrder(label, i) == label = i + 1

IdentityAgrees(letter, atom) == letter = atom.identity

RECURSIVE ReadRows(_, _, _, _, _, _, _)
ReadRows(charge_type, lines, pos, input_type, molecule, i, charges) ==
    IF i >= Len(molecule)
    THEN LET next_line == ReadLine(lines, pos)
         IN  IF ~InTermination(Prefix(next_line, 8), input_type)
             THEN Extraction(
                      Exc("InputFormatError",
                          TerminationMsg(input_type, Prefix(next_line, 8))),
                      charges, AfterLine(lines, pos), i)
             ELSE Extraction(NoExc, charges, AfterLine(lines, pos), i)
    ELSE LET line == ReadLine(lines, pos)
             after == AfterLine(lines, pos)
             p == charge_line(input_type, line, charge_type)
         IN  IF p.exc # NoExc
             THEN Extraction(p.exc, charges, after, i)
             ELSE IF ~LabelInOrder(p.label, i)
             THEN Extraction(Exc("InputFormatError", LabelOrderMsg),
                             charges, after, i)
             ELSE IF ~IdentityAgrees(p.letter, molecule[i + 1])
             THEN Extraction(
                      Exc("InputFormatError",
                          IdentityMsg(p.label, molecule[i + 1].identity,
                                      p.letter)),
                      charges, after, i)
             ELSE ReadRows(charge_type, lines, after, input_type, molecule,
                           i + 1, Append(charges, p.charge))

get_charges_from_lines(charge_type, lines, pos, input_type, molecule) ==
    ReadRows(charge_type, lines, pos, input_type, molecule, 0, <<>>)

update_molecule_with_charges_first(molecule, charges, charge_type) ==
    [i \in 1..Len(molecule) |->
        IF i <= Len(charges)
        THEN [molecule[i] EXCEPT
                 !.charges = DictSet(@, charge_type, charges[1])]
        ELSE molecule[i]]

\* for atom, charge in zip(molecule, charges): atom.charges[charge_type] = charge
update_molecule_with_charges(molecule, charges, charge_type) ==
    [i \in 1..Len(molecule) |->
        IF i <= Len(charges)
        THEN [molecule[i] EXCEPT
                 !.charges = DictSet(@, charge_type, charges[i])]
        ELSE molecule[i]]

(***************************************************************************)
(* _get_charges and update_with_charges.  A call's outcome: the exception  *)
(* that left update_with_charges (or none), the molecule as the call left  *)
(* it, and what the locator and the extraction did.                        *)
(***************************************************************************)
NoGoto == GotoOutcome(NoExc, 0, <<>>, <<>>)

NoExtraction == Extraction(NoExc, <<>>, 0, 0)

CallOutcome(exc, molecule, goto, extraction) ==
    [exc |-> exc, molecule |-> molecule, goto |-> goto,
     extraction |-> extraction]

goto_in(input_type, charge_type, lines) ==
    IF input_type = "sumviz" THEN goto_in_sumviz(charge_type, lines)
    ELSE goto_in_log(charge_type, lines, -1)

AttachDuringExtraction(molecule, ext, charge_type) ==
    update_molecule_with_charges(molecule, ext.charges, charge_type)

\* _update_molecule_with_charges runs only when _get_charges_from_lines
\* returned: an exception leaves the molecule as it was.
AttachAfterExtraction(molecule, ext, charge_type) ==
    IF ext.exc # NoExc THEN molecule
    ELSE update_molecule_with_charges(molecule, ext.charges, charge_type)

\* _get_charges once the extraction has returned or raised (ext).
Extracted(molecule, g, ext, charge_type) ==
    CallOutcome(ext.exc, AttachAfterExtraction(molecule, ext, charge_type),
                g, ext)

\* _get_charges once the locator has returned or raised (g).
AfterGoto(g, charge_type, lines, input_type, molecule) ==
    IF g.exc # NoExc
    THEN CallOutcome(g.exc, molecule, g, NoExtraction)
    ELSE Extracted(molecule, g,
                   get_charges_from_lines(charge_type, lines, g.pos,
                                          input_type, molecule),
                   charge_type)

get_charges(charge_type, lines, input_type, molecule) ==
    AfterGoto(goto_in(input_type, charge_type, lines), charge_type, lines,
             input_type, molecule)

\* The input format update_with_charges dispatches to, "" when it raises.
InputTypeOf(charge_type, filename) ==
    IF Suffix(filename, 4) \in {".log", ".out"} THEN "log"
    ELSE IF Suffix(filename, 7) = ".sumviz" /\ charge_type = "aim" THEN "sumviz"
    ELSE ""

\* filename[-4] of a name of fewer than four characters raises IndexError
\* while the message is formatted.
update_with_charges(charge_type, filename, lines, molecule) ==
    LET input_type == InputTypeOf(charge_type, filename)
    IN  IF input_type = "log"
        THEN get_charges(charge_type, lines, "log", molecule)
        ELSE IF input_type = "sumviz"
        THEN get_charges("aim", lines, "sumviz", molecule)
        ELSE IF Len(filename) < 4
        THEN CallOutcome(Exc("IndexError", "string index out of range"),
                         molecule, NoGoto, NoExtraction)
        ELSE IF Suffix(filename, 4) \in {".chk", ".fchk"}
        THEN CallOutcome(
                 Exc("NotImplementedError",
                     "File extension " \o CharFromEnd(filename, 4)
                         \o " currently not supported."),
                 molecule, NoGoto, NoExtraction)
        ELSE CallOutcome(
                 Exc("NotImplementedError",
                     "File extension " \o CharFromEnd(filename, 4)
                         \o " is not supported."),
                 molecule, NoGoto, NoExtraction)

(***************************************************************************)
(* Input files.  A report holds charge blocks as Gaussian (.log/.out) and  *)
(* AIMAll (.sumviz) print them; the rows and the line after them are       *)
(* drawn from small pools that hold well-formed and malformed variants.    *)
(***************************************************************************)
NL(s) == s \o "\n"

\* The charge printed on row k of a block, and on row k of an earlier block
\* of the same file.
ChargeText(k) ==
    (IF k % 2 = 1 THEN "-" ELSE "") \o "0." \o IntToStr(k) \o "5"

EarlierChargeText(k) == "0." \o IntToStr(k) \o "1"

Symbols == {"C", "H"}

LogRow(label, letter, charge) ==
    NL("     " \o IntToStr(label) \o "  " \o letter \o "   " \o charge)

NboRow(label, letter, charge) ==
    NL("      " \o letter \o "    " \o IntToStr(label) \o "   " \o charge
           \o "      1.99     4.5")

SumvizRow(label, letter, charge) ==
    NL(letter \o IntToStr(label) \o "            " \o charge \o "   0.1")

Row(kind, label, letter, charge) ==
    CASE kind = "nbo" -> NboRow(label, letter, charge)
      [] kind = "sumviz" -> SumvizRow(label, letter, charge)
      [] OTHER -> LogRow(label, letter, charge)

\* What a block's k-th row may be: the right label with either symbol, or
\* the next label.
RowPool(kind, k) ==
    {Row(kind, k, s, ChargeText(k)) : s \in Symbols}
        \cup {Row(kind, k + 1, "C", ChargeText(k))}

RECURSIVE RowSeqs(_, _)
RowSeqs(kind, n) ==
    IF n = 0 THEN {<<>>}
    ELSE {Append(rs, r) : rs \in RowSeqs(kind, n - 1), r \in RowPool(kind, n)}

SumLine == NL(" Sum of Mulliken charges =   0.00000")

RuleLine == NL(" =======================================")

DashLine == NL("----------------------------------------")

\* The lines that may follow n rows: the terminators of the two formats, an
\* empty line, a short run of dashes that ends the file, the end of the
\* file, and one more row before the terminator.
Endings(kind, n) ==
    {<<SumLine>>, <<RuleLine>>, <<DashLine>>, <<NL("")>>, <<"---">>, <<>>,
     <<Row(kind, n + 1, "C", ChargeText(n + 1)),
       IF kind = "sumviz" THEN DashLine ELSE SumLine>>}

MullikenHead == <<NL(" Mulliken charges:"), NL("               1")>>

EspHead(marker) ==
    <<NL(marker), NL(" Charges from ESP fit, RMS=   0.00100"),
      NL(" ESP charges:"), NL("               1")>>

MkMarker == " Merz-Kollman atomic radii used."

ChelpgMarker == " Breneman (CHELPG) radii used."

NboHead ==
    <<NL(" Summary of Natural Population Analysis:"), NL(""),
      NL("                                     Natural Population"),
      NL("             Natural    ------------------------------"),
      NL("  Atom No    Charge        Core      Valence    Rydberg"),
      NL(" ------------------------------------------------------")>>

SumvizHead ==
    <<NL("Some Atomic Properties:"), NL(""), NL("line 2"), NL("line 3"),
      NL("line 4"), NL("line 5"), NL("line 6"), NL("line 7"), NL("line 8"),
      NL("------------------------------")>>

BlockHead(kind) ==
    CASE kind = "mulliken" -> MullikenHead
      [] kind = "mk" -> EspHead(MkMarker)
      [] kind = "chelpg" -> EspHead(ChelpgMarker)
      [] kind = "nbo" -> NboHead
      [] kind = "sumviz" -> SumvizHead

\* A complete, well-formed block of n carbon rows with other charges.
OtherBlock(kind, n) ==
    BlockHead(kind)
        \o [k \in 1..n |-> Row(kind, k, "C", EarlierChargeText(k))]
        \o <<IF kind = "nbo" THEN RuleLine ELSE SumLine>>

Preamble == <<NL(" Entering Gaussian System")>>

\* The blocks of one kind: up to MaxAtoms rows and what follows them.
Blocks(kind) ==
    UNION {{BlockHead(kind) \o rs \o e :
                rs \in RowSeqs(kind, n), e \in Endings(kind, n)} :
               n \in 0..MaxAtoms}

\* Mulliken reports: the block alone, or after an earlier Mulliken block.
MullikenReports ==
    {Preamble \o pre \o b :
         pre \in {<<>>, OtherBlock("mulliken", MaxAtoms)},
         b \in Blocks("mulliken")}

NboReports == {Preamble \o b : b \in Blocks("nbo")}

SumvizReports == {b : b \in Blocks("sumviz")}

\* Merz-Kollman reports: a block with its rows and terminator, alone, after
\* a CHELPG block and before a CHELPG block.
MkReports ==
    LET blocks == UNION {{BlockHead("mk") \o rs \o <<SumLine>> :
                             rs \in RowSeqs("mk", n)} : n \in 1..MaxAtoms}
        other == OtherBlock("chelpg", MaxAtoms)
    IN  {Preamble \o b : b \in blocks}
            \cup {Preamble \o other \o b : b \in blocks}
            \cup {Preamble \o b \o other : b \in blocks}

ChargeTypes == {"mulliken", "mk", "chelpg", "nbo", "aim", "resp"}

Filenames ==
    {"mol.log", "mol.out", "mol.sumviz", "mol.chk", "mol.fchk", "mol.txt",
     "log"}

\* A well-formed Mulliken report and a well-formed property listing for a
\* molecule of one carbon atom, and an empty file.
SampleReports ==
    {Preamble \o MullikenHead \o <<Row("mulliken", 1, "C", ChargeText(1)),
                                   SumLine>>,
     SumvizHead \o <<Row("sumviz", 1, "C", ChargeText(1)), DashLine>>,
     <<>>}

Request(charge_type, filename, lines) ==
    [charge_type |-> charge_type, filename |-> filename, lines |-> lines]

\* The calls of update_with_charges the model makes: every report asked for
\* its own charge type under its own extension, and every charge type and
\* extension on the sample reports.
Requests ==
    {Request("mulliken", "mol.log", f) : f \in MullikenReports}
        \cup {Request("nbo", "mol.out", f) : f \in NboReports}
        \cup {Request("aim", "mol.sumviz", f) : f \in SumvizReports}
        \cup {Request("mk", "mol.log", f) : f \in MkReports}
        \cup {Request(ct, fn, f) :
                  ct \in ChargeTypes, fn \in Filenames, f \in SampleReports}

(***************************************************************************)
(* State.                                                                  *)
(*   molecule : the Molecule (a list of Atoms) the caller holds            *)
(*   call     : the last call made and what it did                         *)
(*   field    : the GridField the caller holds, <<>> when it holds none    *)
(*   disk     : the files that exist, each path with the lines it holds    *)
(***************************************************************************)
VARIABLES molecule, call, field, disk

vars == <<molecule, call, field, disk>>

NoCall == [op |-> "none"]

AtomicNos == {1, 6}

RECURSIVE SeqsOver(_, _)
SeqsOver(S, n) ==
    IF n = 0 THEN {<<>>}
    ELSE {Append(s, x) : s \in SeqsOver(S, n - 1), x \in S}

\* The molecules a caller may hold: atoms as Atom() builds them, and atoms
\* of a Cube file (charges['cube'] set from the atom line) after an earlier
\* successful Mulliken extraction.
CubeCharges(atomic_nos) == [i \in 1..Len(atomic_nos) |-> Rat(atomic_nos[i], 1)]

EarlierCharges(n) == [i \in 1..n |-> Rat(i, 7)]

MoleculesOf(atomic_nos) ==
    LET fresh == MoleculeOf(atomic_nos)
        cube == update_molecule_with_charges(fresh, CubeCharges(atomic_nos),
                                             "cube")
    IN  {fresh,
         update_molecule_with_charges(cube, EarlierCharges(Len(atomic_nos)),
                                      "mulliken")}

Molecules ==
    UNION {MoleculesOf(nos) :
               nos \in UNION {SeqsOver(AtomicNos, n) : n \in 1..MaxAtoms}}

InitCharges ==
    /\ molecule \in Molecules
    /\ call = NoCall
    /\ field = <<>>
    /\ disk = <<>>

\* charges.update_with_charges(charge_type, filename, molecule), the file
\* named holding `lines`.
UpdateWithCharges ==
    /\ call.op = "none"
    /\ \E r \in Requests :
          \E out \in {update_with_charges(r.charge_type, r.filename, r.lines,
                                          molecule)} :
              /\ molecule' = out.molecule
              /\ call' = [op |-> "update_with_charges",
                          charge_type |-> r.charge_type,
                          filename |-> r.filename,
                          lines |-> r.lines,
                          before |-> molecule,
                          exc |-> out.exc,
                          goto |-> out.goto,
                          extraction |-> out.extraction]
    /\ UNCHANGED <<field, disk>>

NextCharges == UpdateWithCharges

SpecCharges == InitCharges /\ [][NextCharges]_vars

(***************************************************************************)
(* Properties of update_with_charges, stated on the state a call leaves.   *)
(***************************************************************************)
Updated == call.op = "update_with_charges"

CallInputType == InputTypeOf(call.charge_type, call.filename)

\* The charge type _get_charges is called with.
CallChargeType == IF CallInputType = "sumviz" THEN "aim" ELSE call.charge_type

\* The call located a block and went on to read its rows.
ReachedRows ==
    Updated /\ CallInputType \in {"log", "sumviz"} /\ call.goto.exc = NoExc

\* The line that holds data row i (0-based) of the located block, and what
\* the format's parser makes of it.
DataRow(i) == ReadLine(call.lines, call.goto.pos + i)

ParsedRow(i) == charge_line(CallInputType, DataRow(i), CallChargeType)

RowParses(i) == ParsedRow(i).exc = NoExc

RowMismatch(i) ==
    /\ RowParses(i)
    /\ \/ ParsedRow(i).label # i + 1
       \/ ParsedRow(i).letter # call.before[i + 1].identity

\* The third field of a report row is its charge.
ChargeField(line) == ParseFloat(Split(line)[3]).val

HeaderLineBefore(pos) ==
    LET h == pos - LinesToSkip(call.charge_type)
    IN  /\ h >= 1
        /\ RStrip(call.lines[h]) = charge_section_header_in_log(call.charge_type)

\* C1: a successful update_with_charges on a .log/.out report has read
\* exactly len(molecule) data rows (and the line after them) from the block
\* it located, which starts right after a header of the charge type and the
\* skipped lines, and the i-th atom carries under charge_type the charge
\* printed on the i-th data row.
ThmC1_RowsAttachedInOrder ==
    (Updated /\ CallInputType = "log" /\ call.exc = NoExc) =>
        /\ HeaderLineBefore(call.goto.pos)
        /\ call.extraction.row = Len(molecule)
        /\ call.extraction.pos = call.goto.pos + Len(molecule) + 1
        /\ Len(molecule) = Len(call.before)
        /\ \A i \in 1..Len(molecule) :
              /\ call.charge_type \in DOMAIN molecule[i].charges
              /\ molecule[i].charges[call.charge_type]
                     = ChargeField(DataRow(i - 1))

\* A successful extraction of the last of two blocks into MaxAtoms atoms,
\* replacing charges of an earlier extraction.
WitC1_TwoBlocksSuccess ==
    /\ Updated /\ CallInputType = "log" /\ call.exc = NoExc
    /\ Len(molecule) = MaxAtoms
    /\ Len(call.goto.result) = 2
    /\ call.charge_type \in DOMAIN call.before[1].charges
    /\ molecule[1].charges[call.charge_type]
           # call.before[1].charges[call.charge_type]
    /\ molecule[1].charges[call.charge_type]
           # molecule[MaxAtoms].charges[call.charge_type]

\* C3: when some data row parses but carries a label other than i+1 or a
\* symbol other than the i-th atom's identity, the call does not succeed;
\* and when all rows up to such a row parse, the call raises
\* InputFormatError at or before that row.
ThmC3_MismatchIsFormatError ==
    ReachedRows =>
        \A i \in 0..(Len(call.before) - 1) :
            RowMismatch(i) =>
                /\ call.exc # NoExc
                /\ (\A j \in 0..i : RowParses(j)) =>
                      /\ call.exc.kind = "InputFormatError"
                      /\ call.extraction.row <= i

\* A label mismatch on the second row, after a first row that agrees.
WitC3_SecondRowLabel ==
    /\ ReachedRows /\ Len(call.before) >= 2
    /\ ~RowMismatch(0) /\ RowParses(0)
    /\ RowParses(1) /\ ParsedRow(1).label # 2
    /\ ParsedRow(1).letter = call.before[2].identity
    /\ call.exc.kind = "InputFormatError"
    /\ call.extraction.row = 1

\* The call raised the format error of a mismatching row i (0-based).
RaisedAtMismatch(i) ==
    /\ ReachedRows /\ call.exc.kind = "InputFormatError"
    /\ call.extraction.row = i /\ i < Len(call.before)
    /\ RowMismatch(i)

\* C4 as claimed: the error of a symbol mismatch at the row with 1-based
\* label n names atom n and both symbols, and the error of a label mismatch
\* names the offending row.
ClaimC4_ErrorNamesRow ==
    \A i \in 0..(MaxAtoms - 1) :
        RaisedAtMismatch(i) =>
            IF ParsedRow(i).label # i + 1
            THEN IsSubstring(IntToStr(i + 1), call.exc.msg)
            ELSE /\ IsSubstring("Atom " \o IntToStr(i + 1) \o " ", call.exc.msg)
                 /\ IsSubstring(call.before[i + 1].identity, call.exc.msg)
                 /\ IsSubstring(ParsedRow(i).letter, call.exc.msg)

\* C5 as claimed: after the rows, the call succeeds only if the first 8
\* characters of the next line are exactly a terminator prefix of the
\* format; any other next line (an empty line, fewer dashes, the end of the
\* file) raises InputFormatError.
IsTerminator(prefix, input_type) ==
    IF input_type = "sumviz" THEN prefix = "--------"
    ELSE prefix \in {" Sum of ", " ======="}

RowsConsumed ==
    /\ ReachedRows
    /\ call.extraction.row = Len(call.before)
    /\ \A i \in 0..(Len(call.before) - 1) : RowParses(i) /\ ~RowMismatch(i)

ClaimC5_ExactTerminator ==
    RowsConsumed =>
        LET next_line == ReadLine(call.lines, call.goto.pos + Len(call.before))
        IN  IF IsTerminator(Prefix(next_line, 8), CallInputType)
            THEN call.exc = NoExc
            ELSE call.exc.kind = "InputFormatError"

\* The call raised InputFormatError while handling data row k (0-based).
FormatErrorAtRow(k) ==
    /\ ReachedRows /\ call.exc.kind = "InputFormatError"
    /\ call.extraction.row = k /\ k < Len(call.before)

\* C6 as claimed: a format error at data row k leaves the atoms before row
\* k carrying the newly parsed charges and the atoms from row k on as they
\* were.
ClaimC6_PartialUpdate ==
    \A k \in 0..(MaxAtoms - 1) :
        FormatErrorAtRow(k) =>
            /\ \A i \in 1..k :
                  /\ call.charge_type \in DOMAIN molecule[i].charges
                  /\ molecule[i].charges[call.charge_type]
                         = call.extraction.charges[i]
            /\ \A i \in (k + 1)..Len(molecule) : molecule[i] = call.before[i]

\* C6 as amended: the charges are attached only after every row and the
\* terminator have been validated, so a call that raises leaves every
\* atom's charge map exactly as it was.
ThmC6_ErrorLeavesMoleculeUnchanged ==
    (Updated /\ call.exc # NoExc) => molecule = call.before

\* A format error at the second row, the first row's charge already parsed.
WitC6_ErrorAfterFirstRow ==
    /\ FormatErrorAtRow(1)
    /\ Len(call.extraction.charges) = 1
    /\ \/ call.charge_type \notin DOMAIN molecule[1].charges
       \/ molecule[1].charges[call.charge_type] # call.extraction.charges[1]

\* The extension of a filename: from its last "." to its end, the whole
\* name when it has no ".".
RECURSIVE ExtensionOf(_)
ExtensionOf(filename) ==
    IF FindChar(filename, ".", 2) = 0 THEN filename
    ELSE ExtensionOf(SubSeq(filename, FindChar(filename, ".", 2),
                            Len(filename)))

\* The extension is one update_with_charges reads: .log or .out, or
\* .sumviz with charge type 'aim'.
SupportedExtension ==
    \/ ExtensionOf(call.filename) \in {".log", ".out"}
    \/ ExtensionOf(call.filename) = ".sumviz" /\ call.charge_type = "aim"

\* C18: update_with_charges raises NotImplementedError for every filename
\* whose extension is not supported (.chk and .fchk among them), the
\* molecule is not touched, and the message holds the whole extension of
\* the filename.
ClaimC18_UnsupportedExtensionNamed ==
    (Updated /\ ~SupportedExtension) =>
        /\ call.exc.kind = "NotImplementedError"
        /\ molecule = call.before
        /\ IsSubstring(ExtensionOf(call.filename), call.exc.msg)

(***************************************************************************)
(* _goto_in_log called on its own, on files whose lines are ESP variant    *)
(* markers, charge headers and other lines in any order.                   *)
(***************************************************************************)
MaxScanLines == 4

ScanPool ==
    {NL(MkMarker), NL(ChelpgMarker), NL(" ESP charges:"),
     NL(" Mulliken charges:"), NL("     1  C   -0.15")}

DataLine == NL("     1  C   -0.15")

\* Files with NBO summaries: the header with fewer and with more than five
\* lines after it, and two summaries.
NboScanFiles ==
    {NboHead \o <<DataLine>>,
     NboHead \o <<DataLine, DataLine>>,
     <<NboHead[1], DataLine, DataLine>>,
     <<DataLine>> \o NboHead \o <<DataLine>> \o NboHead
         \o <<DataLine, DataLine>>}

ScanFiles ==
    UNION {SeqsOver(ScanPool, n) : n \in 0..MaxScanLines} \cup NboScanFiles

ScanChargeTypes == {"mk", "chelpg", "mulliken", "nbo"}

Occurences == {-2, -1, 0, 1}

InitLocate ==
    /\ molecule = <<>>
    /\ call = NoCall
    /\ field = <<>>
    /\ disk = <<>>

GotoInLog ==
    /\ call.op = "none"
    /\ \E ct \in ScanChargeTypes, f \in ScanFiles, occ \in Occurences :
          LET out == goto_in_log(ct, f, occ)
          IN  call' = [op |-> "_goto_in_log", charge_type |-> ct,
                       lines |-> f, occurence |-> occ, exc |-> out.exc,
                       pos |-> out.pos, result |-> out.result,
                       esp_types |-> out.esp_types]
    /\ UNCHANGED <<molecule, field, disk>>

NextLocate == GotoInLog

SpecLocate == InitLocate /\ [][NextLocate]_vars

Located == call.op = "_goto_in_log"

\* The ESP variant named by the last marker line before line h, "none"
\* when no marker line precedes it.
RECURSIVE NearestMarkerBefore(_, _)
NearestMarkerBefore(lines, h) ==
    IF h <= 1 THEN "none"
    ELSE IF esp_type_in_log(RStripNL(lines[h - 1])) # "none"
         THEN esp_type_in_log(RStripNL(lines[h - 1]))
         ELSE NearestMarkerBefore(lines, h - 1)

\* C2 as claimed: for an ESP charge type every offset kept after the
\* filtering is the offset after an ' ESP charges:' line whose nearest
\* preceding marker line names the requested variant, in whatever order
\* the header and marker lines stand.
ClaimC2_KeptBlocksAreOfRequestedVariant ==
    (Located /\ call.charge_type \in esp_charges /\ call.exc = NoExc) =>
        \A j \in 1..Len(call.result) :
            LET h == Seek(call.lines, call.result[j])
            IN  /\ h >= 1
                /\ RStrip(call.lines[h]) = " ESP charges:"
                /\ NearestMarkerBefore(call.lines, h) = call.charge_type

\* The numbers of the lines of the file that are the section header of the
\* charge type, in file order.
HeaderLineNumbers(lines, charge_type) ==
    SelectSeq([k \in 1..Len(lines) |-> k],
              LAMBDA k : RStrip(RStripNL(lines[k]))
                             = charge_section_header_in_log(charge_type))

\* The number of marker lines naming an ESP variant.
MarkerLineCount(lines) ==
    Cardinality({k \in 1..Len(lines) :
                    esp_type_in_log(RStripNL(lines[k])) # "none"})

\* The header lines left after the filtering: for an ESP charge type those
\* whose position in the list holds the requested variant in esp_types.
BlocksLeft(lines, charge_type, esp_types) ==
    IF charge_type \notin esp_charges
    THEN HeaderLineNumbers(lines, charge_type)
    ELSE LET hs == HeaderLineNumbers(lines, charge_type)
         IN  SelectSeq(hs, LAMBDA h :
                 \E i \in 1..Min(Len(hs), Len(esp_types)) :
                     hs[i] = h /\ esp_types[i] = charge_type)

CallBlocks == BlocksLeft(call.lines, call.charge_type, call.esp_types)

\* The headers and markers of an ESP charge type disagree in number.
CallMismatch ==
    /\ call.charge_type \in esp_charges
    /\ Len(HeaderLineNumbers(call.lines, call.charge_type))
           # MarkerLineCount(call.lines)

\* C15: on success _goto_in_log leaves the stream after the header line of
\* the block at index occurence of the filtered list, a negative index
\* counting from the end, and then 5 lines further on for 'nbo' and 1 line
\* further on for every other charge type (or at the end of the file when
\* it comes first).
ThmC15_PositionedAfterSelectedHeader ==
    (Located /\ call.exc = NoExc) =>
        LET n == Len(CallBlocks)
            picked == IF call.occurence >= 0 THEN call.occurence + 1
                      ELSE n + call.occurence + 1
        IN  /\ picked \in 1..n
            /\ call.pos =
                   Min(CallBlocks[picked]
                           + (IF call.charge_type = "nbo" THEN 5 ELSE 1),
                       Len(call.lines))

\* The last of two NBO summaries selected with -1, five lines skipped and
\* a line left to read.
WitC15_LastNboBlock ==
    /\ Located
    /\ call.exc = NoExc
    /\ call.charge_type = "nbo"
    /\ call.occurence = -1
    /\ Len(CallBlocks) = 2
    /\ call.pos = CallBlocks[2] + 5
    /\ call.pos < Len(call.lines)

\* C16: with no offset left for the charge type after the filtering the
\* 'not found' InputFormatError is raised; with an offset left and the
\* occurence outside the list IndexError is raised.
ThmC16_NotFoundAndOutOfRange ==
    (Located /\ ~CallMismatch) =>
        LET n == Len(CallBlocks)
        IN  /\ n = 0 =>
                  call.exc = Exc("InputFormatError",
                                 "Output about charge type '"
                                     \o call.charge_type \o "' not found.")
            /\ (n > 0 /\ (call.occurence >= n \/ call.occurence < -n)) =>
                  call.exc.kind = "IndexError"
            /\ (n > 0 /\ call.occurence < n /\ call.occurence >= -n) =>
                  call.exc = NoExc

\* One block of the charge type in the file and the second one asked for.
WitC16_SecondOfOne ==
    /\ Located
    /\ ~CallMismatch
    /\ Len(CallBlocks) = 1
    /\ call.occurence = 1
    /\ call.exc.kind = "IndexError"

\* C17: for an ESP charge type, when the number of ' ESP charges:' header
\* lines differs from the number of recognised marker lines, InputFormatError
\* is raised and the stream is left at the end of the file, no block
\* selected.
ThmC17_MismatchIsFormatError ==
    (Located /\ CallMismatch) =>
        /\ call.exc = Exc("InputFormatError",
                          "Information about the type of some ESP charges was not recognized.")
        /\ call.pos = Len(call.lines)

\* More marker lines than headers.
WitC17_MoreMarkersThanHeaders ==
    /\ Located
    /\ CallMismatch
    /\ Len(HeaderLineNumbers(call.lines, call.charge_type)) = 1
    /\ MarkerLineCount(call.lines) = 2
    /\ call.exc.kind = "InputFormatError"

(***************************************************************************)
(* src/repESP/resp.py: the combined ivary list and the equivalence         *)
(* resolver.                                                               *)
(***************************************************************************)
unset_charge == 42

\* The least common multiple; sums are made on it to keep the integers small.
LCM(x, y) == (x \div GCD(x, y)) * y

RatAdd(a, b) ==
    Rat(a[1] * (LCM(a[2], b[2]) \div a[2]) + b[1] * (LCM(a[2], b[2]) \div b[2]),
        LCM(a[2], b[2]))

RECURSIVE RatSum(_)
RatSum(qs) ==
    IF qs = <<>> THEN <<0, 1>>
    ELSE RatAdd(qs[1], RatSum(SubSeq(qs, 2, Len(qs))))

\* np.mean of a non-empty list.
Mean(qs) == LET t == RatSum(qs) IN Rat(t[1], t[2] * Len(qs))

\* The value _modify_ivary_list takes from the two stages of one atom.
CombineStages_First(ivary1, ivary2) == IF ivary1 # 0 THEN ivary1 ELSE ivary2

CombineStages(ivary1, ivary2) == Max(ivary1, ivary2)

\* _modify_ivary_list(resp_type, molecule, ivary_list1, ivary_list2,
\* inp_charges)
modify_ivary_list(resp_type, mol, ivary_list1, ivary_list2, inp_charges) ==
    IF ~inp_charges.given /\ resp_type = "d"
    THEN [exc |-> Exc("ValueError",
                      "Modification of ivary list requested for resp_type='d' but no input charges were given."),
          result |-> <<>>]
    ELSE
    LET m == Min(Min(Len(mol), Len(ivary_list1)),
                 Min(Len(ivary_list2),
                     IF ~inp_charges.given THEN Len(mol)
                     ELSE Len(inp_charges.list)))
        one(i) ==
            LET ivary == CombineStages(ivary_list1[i], ivary_list2[i])
                h == IF resp_type = "h" /\ mol[i].atomic_no # 1
                     THEN -1 ELSE ivary
            IN  IF resp_type = "d" /\ inp_charges.list[i] # Rat(unset_charge, 1)
                THEN -1 ELSE h
    IN  IF m > 0 /\ resp_type \notin {"h", "u", "d", "e"}
        THEN [exc |-> Exc("NotImplementedError",
                          "Modification of ivary values not implemented for resp_type '"
                              \o resp_type \o "'."),
              result |-> <<>>]
        ELSE [exc |-> NoExc, result |-> [i \in 1..m |-> one(i)]]

\* reffed_by after the loop `if elem: reffed_by[elem-1].append(i+1)`:
\* the 1-based position of the list that atom i (1-based) is appended to,
\* 0 when elem is 0, -1 when the index raises IndexError.
ReffedIndex(ivary_list, i) ==
    IF ivary_list[i] = 0 THEN 0
    ELSE LET sel == PyIndex(Len(ivary_list), ivary_list[i] - 1)
         IN  IF sel = 0 THEN -1 ELSE sel

ReffedBy(ivary_list) ==
    [j \in 1..Len(ivary_list) |->
        SelectSeq([i \in 1..Len(ivary_list) |-> i],
                  LAMBDA i : ReffedIndex(ivary_list, i) = j)]

\* The check for an atom referenced by an atom that is itself referenced.
HasDeeperReference(reffed_by) ==
    \E j \in 1..Len(reffed_by) :
        \E k \in 1..Len(reffed_by[j]) : reffed_by[reffed_by[j][k]] # <<>>

\* The charges of the referencing atoms alone.
ChargesToAvg_WithoutOwn(inp_charges, refs, i) ==
    [k \in 1..Len(refs) |-> inp_charges[refs[k]]]

\* The charges averaged for atom i: those of the atoms referencing it,
\* then its own.
ChargesToAvg(inp_charges, refs, i) ==
    Append([k \in 1..Len(refs) |-> inp_charges[refs[k]]], inp_charges[i])

Resolved(exc, ivary_list, result) ==
    [exc |-> exc, ivary_list |-> ivary_list, result |-> result]

\* The body of equivalence() from the combined list on.  <<>> stands for
\* the None of an entry of `result` still to be filled.
resolve(ivary_list, inp_charges) ==
    LET n == Len(ivary_list)
        reffed_by == ReffedBy(ivary_list)
        result == [i \in 1..n |->
                      IF reffed_by[i] # <<>>
                      THEN Mean(ChargesToAvg(inp_charges, reffed_by[i], i))
                      ELSE <<>>]
        new_result ==
            [i \in 1..n |->
                IF result[i] # <<>> THEN result[i]
                ELSE IF ivary_list[i] = 0 THEN inp_charges[i]
                ELSE result[PyIndex(n, ivary_list[i] - 1)]]
    IN  IF \E i \in 1..n : ReffedIndex(ivary_list, i) = -1
        THEN Resolved(Exc("IndexError", "list index out of range"),
                      ivary_list, <<>>)
        ELSE IF HasDeeperReference(reffed_by)
        THEN Resolved(
                 Exc("NotImplementedError",
                     "The .respin file contains more complicated references, which cannot by resolved by the current implementation of this function."),
                 ivary_list, <<>>)
        ELSE Resolved(NoExc, ivary_list, new_result)

\* equivalence(molecule, charge_type, ...), the two .respin files holding
\* ivary_list1 and ivary_list2 for the atoms of the molecule.
equivalence(mol, charge_type, ivary_list1, ivary_list2) ==
    LET m == modify_ivary_list("e", mol, ivary_list1, ivary_list2, None)
    IN  IF m.exc # NoExc THEN Resolved(m.exc, <<>>, <<>>)
        ELSE IF \E i \in 1..Len(mol) : charge_type \notin DOMAIN mol[i].charges
        THEN Resolved(Exc("KeyError", charge_type), m.result, <<>>)
        ELSE resolve(m.result,
                     [i \in 1..Len(mol) |-> mol[i].charges[charge_type]])

(***************************************************************************)
(* The resolver's inputs: a molecule of up to MaxRespAtoms atoms carrying  *)
(* charges of one type, and two ivary lists over its atoms.  A stage value *)
(* is 0 (free), a 1-based reference to an atom, or a frozen sentinel (-1   *)
(* in the RESP documentation, -99 in respgen's files).                     *)
(***************************************************************************)
MaxRespAtoms == 3

StageValues(n) == {-99, -1, 0} \cup (1..n)

IvaryLists(n) == SeqsOver(StageValues(n), n)

\* The second list drawn with a first list: each stage value on every atom,
\* and the first list itself.
SecondStageLists(ivary_list1) ==
    {[i \in 1..Len(ivary_list1) |-> v] : v \in StageValues(Len(ivary_list1))}
        \cup {ivary_list1}

\* Two series of input charges: 0.2, 0.4, -0.1, 0.5, ... and
\* 0.0, 0.3, 0.9, 1.5, ...
InputCharge(series, i) ==
    IF series = 1
    THEN (IF i = 1 THEN Rat(2, 10) ELSE IF i = 2 THEN Rat(4, 10)
          ELSE Rat(6 * i - 19, 10))
    ELSE Rat(3 * (i - 1) * i, 20)

\* A methane-like molecule: a carbon and hydrogens.
RespAtomicNo(i) == IF i = 1 THEN 6 ELSE 1

RespMolecule(n, series) ==
    update_molecule_with_charges(
        MoleculeOf([i \in 1..n |-> RespAtomicNo(i)]),
        [i \in 1..n |-> InputCharge(series, i)], "mulliken")

RespTypes == {"e", "u", "h", "d", "2"}

\* inp_charges as charges_from_dict builds it: the charge of atom 1 given,
\* the others unset.
DictCharges(n) ==
    Given([i \in 1..n |-> IF i = 1 THEN Rat(-1, 2) ELSE Rat(unset_charge, 1)])

InitResp ==
    /\ molecule \in {RespMolecule(n, series) :
                         n \in 1..MaxRespAtoms, series \in {1, 2}}
    /\ call = NoCall
    /\ field = <<>>
    /\ disk = <<>>

\* resp._modify_ivary_list as _run_resp and equivalence call it.
ModifyIvaryList ==
    /\ call.op = "none"
    /\ \E resp_type \in RespTypes, l1 \in IvaryLists(Len(molecule)),
          inp \in {None, DictCharges(Len(molecule))} :
          \E l2 \in SecondStageLists(l1) :
              LET out == modify_ivary_list(resp_type, molecule, l1, l2, inp)
              IN  /\ inp.given => resp_type = "d"
                  /\ call' = [op |-> "_modify_ivary_list",
                              resp_type |-> resp_type,
                              ivary_list1 |-> l1, ivary_list2 |-> l2,
                              inp_charges |-> inp,
                              exc |-> out.exc, ivary_list |-> out.result]
    /\ UNCHANGED <<molecule, field, disk>>

\* resp.equivalence(molecule, charge_type, input_dir).
Equivalence ==
    /\ call.op = "none"
    /\ \E charge_type \in {"mulliken", "nbo"}, l1 \in IvaryLists(Len(molecule)) :
          \E l2 \in SecondStageLists(l1) :
              LET out == equivalence(molecule, charge_type, l1, l2)
              IN  call' = [op |-> "equivalence", charge_type |-> charge_type,
                           ivary_list1 |-> l1, ivary_list2 |-> l2,
                           exc |-> out.exc, ivary_list |-> out.ivary_list,
                           result |-> out.result]
    /\ UNCHANGED <<molecule, field, disk>>

NextResp == ModifyIvaryList \/ Equivalence

SpecResp == InitResp /\ [][NextResp]_vars

(***************************************************************************)
(* Claims about the equivalence resolver.  In the claims a reference is a  *)
(* positive entry of the combined list: entry j on atom i says that atom i *)
(* references atom j.                                                      *)
(***************************************************************************)
Resolving == call.op = "equivalence"

InputCharges ==
    [i \in 1..Len(molecule) |-> molecule[i].charges[call.charge_type]]

Referrers(ivary_list, j) == {i \in 1..Len(ivary_list) : ivary_list[i] = j}

\* No atom that references another atom is itself referenced.
IsFlat(ivary_list) ==
    \A i \in 1..Len(ivary_list) :
        ivary_list[i] > 0 => Referrers(ivary_list, i) = {}

\* The arithmetic mean of the charge of atom j and of the atoms that
\* reference it.
GroupMean(charges, ivary_list, j) ==
    LET members == SelectSeq([i \in 1..Len(ivary_list) |-> i],
                             LAMBDA i : i = j \/ ivary_list[i] = j)
    IN  Mean([k \in 1..Len(members) |-> charges[members[k]]])

\* C9: the combined ivary list has one entry per atom, the maximum of the
\* atom's two stage values: positive whenever either stage value is
\* positive, 0 when neither is positive and at least one is 0, negative only
\* when both are negative.  (resp_type 'e' and 'u' combine without further
\* freezing; equivalence() resolves the list it gets for 'e'.)
ThmC9_CombinedIsMaximum ==
    (\/ Resolving
     \/ call.op = "_modify_ivary_list" /\ call.resp_type \in {"e", "u"})
    => /\ call.exc.kind \in {"none", "KeyError", "IndexError",
                              "NotImplementedError"}
       /\ call.exc.kind # "KeyError" /\ ~Resolving => call.exc = NoExc
       /\ (Resolving \/ call.exc = NoExc) =>
           /\ Len(call.ivary_list) = Len(molecule)
           /\ \A i \in 1..Len(molecule) :
                LET a == call.ivary_list1[i]
                    b == call.ivary_list2[i]
                    c == call.ivary_list[i]
                IN  /\ c = (IF a >= b THEN a ELSE b)
                    /\ (c > 0) = (a > 0 \/ b > 0)
                    /\ (c = 0) = (a <= 0 /\ b <= 0 /\ (a = 0 \/ b = 0))
                    /\ (c < 0) = (a < 0 /\ b < 0)

\* A combination with an equivalence beating a frozen value, a free fit
\* beating a frozen value, and an atom frozen in both stages.
WitC9_AllThreeRanks ==
    /\ call.op = "_modify_ivary_list"
    /\ call.resp_type = "u"
    /\ call.exc = NoExc
    /\ \E i, j, k \in 1..Len(molecule) :
          /\ call.ivary_list1[i] > 0 /\ call.ivary_list2[i] < 0
          /\ call.ivary_list[i] = call.ivary_list1[i]
          /\ call.ivary_list1[j] = 0 /\ call.ivary_list2[j] < 0
          /\ call.ivary_list[j] = 0
          /\ call.ivary_list1[k] < 0 /\ call.ivary_list2[k] < 0
          /\ call.ivary_list[k] < 0

\* C7: for a flat combined list, an atom referenced by other atoms gets the
\* mean of its own input charge and those of the atoms referencing it, an
\* unreferenced atom with combined value 0 keeps its input charge, and an
\* unreferenced atom referencing atom j gets atom j's resolved value.
ClaimC7_FlatListResolution ==
    Resolving /\ call.exc = NoExc /\ IsFlat(call.ivary_list)
    => \A i \in 1..Len(molecule) :
          LET l == call.ivary_list
          IN  /\ Referrers(l, i) # {}
                    => call.result[i] = GroupMean(InputCharges, l, i)
              /\ Referrers(l, i) = {} /\ l[i] = 0
                    => call.result[i] = InputCharges[i]
              /\ Referrers(l, i) = {} /\ l[i] > 0
                    => call.result[i] = GroupMean(InputCharges, l, l[i])

\* C8: every combined list in which some atom that references another atom
\* is itself referenced (self-references and cycles included) makes
\* equivalence() raise NotImplementedError, never return charges.
ClaimC8_ChainsRaiseNotImplemented ==
    Resolving /\ call.charge_type = "mulliken" /\ ~IsFlat(call.ivary_list)
    => call.exc.kind = "NotImplementedError" /\ call.result = <<>>

\* The atoms whose combined value is negative, and the list with those
\* atoms free instead.
Frozen(ivary_list) == {i \in 1..Len(ivary_list) : ivary_list[i] < 0}

Thawed(ivary_list) ==
    [i \in 1..Len(ivary_list) |->
        IF ivary_list[i] < 0 THEN 0 ELSE ivary_list[i]]

\* The call resolved a combined list (the charges of its type are set).
ResolvedCombined ==
    /\ Resolving
    /\ call.exc.kind # "KeyError"
    /\ Len(call.ivary_list) = Len(molecule)

\* C29: an atom whose combined value is negative is not counted as a
\* reference to any atom, so the call ends as it does on the list with that
\* atom free: the same outcome and the same resolved charge for every
\* atom; and such an atom, when no atom references it, keeps its input
\* charge.
ClaimC29_FrozenAtomsStayOut ==
    (ResolvedCombined /\ Frozen(call.ivary_list) # {})
        => /\ call.exc = resolve(Thawed(call.ivary_list), InputCharges).exc
           /\ call.result
                  = resolve(Thawed(call.ivary_list), InputCharges).result
           /\ call.exc = NoExc
                  => \A i \in Frozen(call.ivary_list) :
                         Referrers(call.ivary_list, i) = {}
                             => call.result[i] = InputCharges[i]

\* The call accepted a combined list without negative values.
AcceptedList ==
    /\ ResolvedCombined
    /\ call.exc = NoExc
    /\ \A i \in 1..Len(call.ivary_list) : call.ivary_list[i] >= 0

\* C30: on an accepted combined list without negative values the resolved
\* charges have the sum of the input charges, an atom that references
\* another has the resolved charge of that atom, and resolving the resolved
\* charges again gives them back.
ThmC30_ConservedEqualIdempotent ==
    AcceptedList
        => /\ IsFlat(call.ivary_list)
           /\ RatSum(call.result) = RatSum(InputCharges)
           /\ \A i \in 1..Len(call.ivary_list) :
                  call.ivary_list[i] > 0
                      => call.result[i] = call.result[call.ivary_list[i]]
           /\ resolve(call.ivary_list, call.result).exc = NoExc
           /\ resolve(call.ivary_list, call.result).result = call.result

WitC30_TwoAtomsReferenceTheFirst ==
    /\ AcceptedList
    /\ call.ivary_list = <<0, 1, 1>>
    /\ call.result[1] # InputCharges[1]
    /\ call.result[1] = call.result[3]

(***************************************************************************)
(* cube_helpers.Molecule.extract_qtaim_basins.  A grid is its              *)
(* points_on_axes; a cube is the grid and the flat values of its field.    *)
(* The files matched by the glob are the set of their numbers: file k is   *)
(* BvAt000k.cube.  Messages are given without their reST quote marks.      *)
(***************************************************************************)
MaxBasinAtoms == 3

MaxPoints == 2

GridOf(points) == [points_on_axes |-> <<points, 1, 1>>]

PointCount(grid) ==
    grid.points_on_axes[1] * grid.points_on_axes[2] * grid.points_on_axes[3]

CubeOf(grid, values) == [grid |-> grid, values |-> values]

\* GridField(values, grid, field_type, field_info)
GridField(values, grid, field_type, field_info) ==
    [values |-> values, grid |-> grid, field_type |-> field_type,
     field_info |-> field_info]

NoField == GridField(<<>>, GridOf(0), "none", <<>>)

Basins(exc, result) == [exc |-> exc, result |-> result]

\* point_bool: True if elem else False, on a float of the field.
Truthy(elem) == elem # 0

\* sum(point_bool) for grid point p over the cubes.
TruthyCount(cubes, p) ==
    Cardinality({i \in 1..Len(cubes) : Truthy(cubes[i].values[p])})

\* sum(point_bool) > 1
ManyAssigned_MoreThanTwo(count) == count > 2

ManyAssigned(count) == count > 1

NotAssigned(count) == count = 0

\* point_bool.index(True) + 1
ParentAtom(cubes, p) ==
    CHOOSE i \in 1..Len(cubes) :
        /\ Truthy(cubes[i].values[p])
        /\ \A k \in 1..(i - 1) : ~Truthy(cubes[k].values[p])

\* The points zip(*[cube.field.values.flat ...]) yields: as many as the
\* shortest field has, none when there is no cube.
ZippedPoints(cubes) ==
    IF cubes = <<>> THEN 0
    ELSE CHOOSE m \in {PointCount(cubes[i].grid) : i \in 1..Len(cubes)} :
             \A i \in 1..Len(cubes) : m <= PointCount(cubes[i].grid)

\* ndarray.resize: the flat values cut or zero-filled to the new size.
Resize(values, size) ==
    [p \in 1..size |-> IF p <= Len(values) THEN values[p] ELSE 0]

UnassignedMsg ==
    "Found point not assigned to any atom by the bader program. Maybe the -vac off option was not set?"

ManyAssignedMsg ==
    "Found point assigned to many atoms by the bader program. Possible numerical inconsistency in algorithm."

\* The loop over the points and the field built from its result.
Vote(cubes, parent_grid) ==
    LET points == ZippedPoints(cubes)
        bad == {p \in 1..points :
                   \/ NotAssigned(TruthyCount(cubes, p))
                   \/ ManyAssigned(TruthyCount(cubes, p))}
        first == CHOOSE p \in bad : \A q \in bad : p <= q
    IN  IF bad # {}
        THEN Basins(Exc("InputFormatError",
                        IF NotAssigned(TruthyCount(cubes, first))
                        THEN UnassignedMsg ELSE ManyAssignedMsg),
                    NoField)
        ELSE Basins(NoExc,
                    GridField(Resize([p \in 1..points |-> ParentAtom(cubes, p)],
                                     PointCount(parent_grid)),
                              parent_grid, "parent_atom", <<"qtaim">>))

\* extract_qtaim_basins(self, grid, path): self is mol, whose parent cube
\* has the grid parent_grid; output_files are the numbers of the files
\* the glob matches and cubes[i] is what Cube() reads from expected file i.
extract_qtaim_basins(mol, parent_grid, grid, output_files, cubes) ==
    LET other == {i \in 1..Len(cubes) : cubes[i].grid # grid}
        i == CHOOSE i \in other : \A k \in other : i <= k
    IN  IF output_files # 1..Len(mol)
        THEN IF output_files = {}
             THEN Basins(Exc("InputFormatError",
                             "No bader output cube files found! To generate the files use the command: bader -p all_atom -vac off density.cube"),
                         NoField)
             ELSE Basins(Exc("UnboundLocalError",
                             "local variable 'msg' referenced before assignment"),
                         NoField)
        ELSE IF other # {}
        THEN Basins(Exc("GridError",
                        "The grid of bader cube number " \o NatToStr(i)
                            \o " is different from that of the molecule requesting extraction."),
                    NoField)
        ELSE Vote(cubes, parent_grid)

(***************************************************************************)
(* Basin extraction requests: a molecule of up to MaxBasinAtoms atoms, the *)
(* cube files of a directory and a grid of up to MaxPoints points.         *)
(***************************************************************************)
BasinGrids == {GridOf(points) : points \in 1..MaxPoints}

\* The values of a bader cube: 0 outside the basin, the density inside.
Densities == {1, 2}

\* A cube whose field is nonzero at the points of inside.
BaderCube(grid, inside, density) ==
    CubeOf(grid, [p \in 1..PointCount(grid) |->
                     IF inside[p] THEN density ELSE 0])

\* A well-formed set of cubes for n atoms: point p belongs to one atom.
OwnBasin(n, i, grid) ==
    BaderCube(grid, [p \in 1..PointCount(grid) |-> ((p - 1) % n) + 1 = i], 1)

BasinRequest(parent_grid, grid, output_files, cubes) ==
    [parent_grid |-> parent_grid, grid |-> grid,
     output_files |-> output_files, cubes |-> cubes]

\* Cubes of n atoms on the caller's grid, with every assignment of the
\* points to the basins.
VotingRequests(n, g) ==
    {BasinRequest(g, g, 1..n, [i \in 1..n |-> BaderCube(g, inside[i], d)]) :
        inside \in [1..n -> [1..PointCount(g) -> BOOLEAN]], d \in Densities}

\* Every assignment on every grid; the files of another directory listing;
\* cubes on other grids; a parent cube on another grid.
BasinRequests(n) ==
    UNION {VotingRequests(n, g) : g \in BasinGrids}
    \cup {BasinRequest(g, g, files, [i \in 1..n |-> OwnBasin(n, i, g)]) :
             g \in {GridOf(MaxPoints)}, files \in SUBSET (1..(n + 1))}
    \cup {BasinRequest(pg, g, 1..n, [i \in 1..n |-> OwnBasin(n, i, cg[i])]) :
             pg \in BasinGrids, g \in BasinGrids, cg \in [1..n -> BasinGrids]}

InitBasins ==
    /\ molecule \in {MoleculeOf([i \in 1..n |-> RespAtomicNo(i)]) :
                         n \in 1..MaxBasinAtoms}
    /\ call = NoCall
    /\ field = <<>>
    /\ disk = <<>>

\* molecule.extract_qtaim_basins(grid, path)
ExtractQtaimBasins ==
    /\ call.op = "none"
    /\ \E r \in BasinRequests(Len(molecule)) :
          LET out == extract_qtaim_basins(molecule, r.parent_grid, r.grid,
                                          r.output_files, r.cubes)
          IN  call' = [op |-> "extract_qtaim_basins",
                       parent_grid |-> r.parent_grid, grid |-> r.grid,
                       output_files |-> r.output_files, cubes |-> r.cubes,
                       exc |-> out.exc, result |-> out.result]
    /\ UNCHANGED <<molecule, field, disk>>

NextBasins == ExtractQtaimBasins

SpecBasins == InitBasins /\ [][NextBasins]_vars

(***************************************************************************)
(* Claims about basin voting.                                              *)
(***************************************************************************)
\* The call got past the file and grid checks, on the parent cube's grid.
Voted ==
    /\ call.op = "extract_qtaim_basins"
    /\ call.output_files = 1..Len(molecule)
    /\ call.parent_grid = call.grid
    /\ \A i \in 1..Len(molecule) : call.cubes[i].grid = call.grid

Owners(p) == {i \in 1..Len(molecule) : call.cubes[i].values[p] # 0}

BadPoints ==
    {p \in 1..PointCount(call.grid) : Cardinality(Owners(p)) # 1}

\* C10: voting over the per-atom fields of one grid labels every point with
\* the index + 1 of its single truthy field; a point with no truthy field,
\* or with more than one, makes the whole call raise a format error (the
\* unassigned-point or the many-atoms message, as the first such point in
\* scan order has it) and no field is returned.
ThmC10_BasinVoting ==
    Voted =>
        IF BadPoints = {}
        THEN /\ call.exc = NoExc
             /\ call.result.field_type = "parent_atom"
             /\ call.result.grid = call.grid
             /\ Len(call.result.values) = PointCount(call.grid)
             /\ \A p \in 1..PointCount(call.grid) :
                    Owners(p) = {call.result.values[p]}
        ELSE /\ call.exc.kind = "InputFormatError"
             /\ call.result = NoField
             /\ LET first == CHOOSE p \in BadPoints :
                                 \A q \in BadPoints : p <= q
                IN  call.exc.msg = (IF Owners(first) = {} THEN UnassignedMsg
                                    ELSE ManyAssignedMsg)

\* Three fields over two points: the first point truthy only in field 1,
\* the second in fields 1 and 2; the call raises for the second point.
WitC10_SecondPointContested ==
    /\ Voted
    /\ Len(molecule) = 3
    /\ PointCount(call.grid) = 2
    /\ Owners(1) = {1}
    /\ Owners(2) = {1, 2}
    /\ call.exc = Exc("InputFormatError", ManyAssignedMsg)

\* The set of per-atom cube files is not the expected one.
WrongFileSet ==
    /\ call.op = "extract_qtaim_basins"
    /\ call.output_files # 1..Len(molecule)

\* C26: whenever the per-atom basin cube files found are not exactly the
\* expected set for the atom count (none, one missing, or one extra), the
\* call raises InputFormatError with a message that names the command
\* regenerating the files.
ClaimC26_WrongFileSetIsFormatError ==
    WrongFileSet =>
        /\ call.exc.kind = "InputFormatError"
        /\ IsSubstring("bader -p all_atom -vac off density.cube", call.exc.msg)

\* The same when no file at all is found.
NoFileIsFormatError ==
    (WrongFileSet /\ call.output_files = {})
        => /\ call.exc.kind = "InputFormatError"
           /\ IsSubstring("bader -p all_atom -vac off density.cube",
                          call.exc.msg)

(***************************************************************************)
(* cube_helpers.Grid and GridAxis, built from the three geometry lines of  *)
(* a cube file, each split into tokens.  An interval is kept as the        *)
(* number read and whether it was multiplied by angstrom_per_bohr.         *)
(***************************************************************************)
AXES == <<"x", "y", "z">>

Interval(number, coords_in_bohr) ==
    [number |-> number, times_angstrom_per_bohr |-> coords_in_bohr]

\* interval != 0
IntervalNonzero(interval) == interval.number # <<0, 1>>

NewGridAxis(label) ==
    [label |-> label, point_count |-> 0, intervals |-> <<>>,
     dir_interval |-> Interval(<<0, 1>>, FALSE)]

AxisOutcome(exc, axis, aligned) ==
    [exc |-> exc, axis |-> axis, aligned |-> aligned]

\* GridAxis.set_point_count(point_count): int() of a token that is not an
\* integer literal raises ValueError before the comparison is made.
set_point_count(axis, point_count) ==
    IF ~ParseInt(point_count).ok
    THEN AxisOutcome(Exc("ValueError", "invalid literal for int()"), axis, TRUE)
    ELSE IF ParseFloat(point_count).val # <<ParseInt(point_count).val, 1>>
    THEN AxisOutcome(
             Exc("GridError",
                 "Number of points in direction " \o axis.label
                     \o " is not an integer: " \o point_count),
             axis, TRUE)
    ELSE AxisOutcome(NoExc,
                     [axis EXCEPT !.point_count = ParseInt(point_count).val],
                     TRUE)

\* An off-diagonal component of the axis is nonzero.
OffDiagonal(label, intervals) ==
    \E direction \in 1..Len(intervals) :
        /\ AXES[direction] # label
        /\ IntervalNonzero(intervals[direction])

\* GridAxis.set_intervals(intervals, coords_in_bohr)
set_intervals(axis, intervals, coords_in_bohr) ==
    IF \E d \in 1..Len(intervals) : ~ParseFloat(intervals[d]).ok
    THEN AxisOutcome(Exc("ValueError", "could not convert string to float"),
                     axis, TRUE)
    ELSE AxisOutcome(
             NoExc,
             [axis EXCEPT
                 !.intervals =
                     [d \in 1..Len(intervals) |->
                         Interval(ParseFloat(intervals[d]).val, coords_in_bohr)],
                 !.dir_interval =
                     IF \E d \in 1..Len(intervals) : AXES[d] = axis.label
                     THEN Interval(
                              ParseFloat(intervals[
                                  CHOOSE d \in 1..Len(intervals) :
                                      AXES[d] = axis.label]).val,
                              coords_in_bohr)
                     ELSE @],
             ~OffDiagonal(axis.label,
                          [d \in 1..Len(intervals) |->
                              Interval(ParseFloat(intervals[d]).val,
                                       coords_in_bohr)]))

\* set_intervals on the axis set_point_count returned.
AfterPointCount(counted, input_axis, coords_in_bohr) ==
    IF counted.exc # NoExc THEN counted
    ELSE set_intervals(counted.axis, Tail(input_axis), coords_in_bohr)

\* Grid._add_axis(axis_number, input_axis, coords_in_bohr)
add_axis(axis_number, input_axis, coords_in_bohr) ==
    AfterPointCount(set_point_count(NewGridAxis(AXES[axis_number]),
                                    Head(input_axis)),
                    input_axis, coords_in_bohr)

GridOutcome(exc, grid) == [exc |-> exc, grid |-> grid]

NoGrid == [points_on_axes |-> <<>>]

\* The Grid object once the three axes are added.
GridObject(added) ==
    [origin_coords |-> <<>>,
     axes |-> [i \in 1..3 |-> added[i].axis],
     aligned_to_coord |-> \A i \in 1..3 : added[i].aligned,
     dir_intervals |-> [i \in 1..3 |-> added[i].axis.dir_interval],
     points_on_axes |-> [i \in 1..3 |-> added[i].axis.point_count]]

\* Grid.__init__ from the outcome of _add_axis on each line.
GridFromAxes(added) ==
    IF \E i \in 1..3 : added[i].exc # NoExc
    THEN GridOutcome(added[CHOOSE i \in 1..3 :
                               /\ added[i].exc # NoExc
                               /\ \A k \in 1..(i - 1) : added[k].exc = NoExc].exc,
                     NoGrid)
    ELSE IF \E i \in 1..3 : ~added[i].aligned
    THEN GridOutcome(Exc("GridError",
                         "The cube is not aligned with coordinate system."),
                     NoGrid)
    ELSE GridOutcome(NoExc, GridObject(added))

\* Grid(grid_input, coords_in_bohr)
Grid(grid_input, coords_in_bohr) ==
    IF Len(grid_input) # 3 \/ \E i \in 1..Len(grid_input) : Len(grid_input[i]) # 4
    THEN GridOutcome(Exc("GridError",
                         "Incorrect grid formatting. Expected a list of shape 3x4"),
                     NoGrid)
    ELSE GridFromAxes([i \in 1..3 |->
                          add_axis(i, grid_input[i], coords_in_bohr)])

(***************************************************************************)
(* Geometry lines: a point count and three interval components per axis.   *)
(***************************************************************************)
PointCountTokens == {NatToStr(n) : n \in 1..MaxPoints} \cup {"2.5", "-2"}

IntervalTokens == {"0.0", "0.25"}

GeometryLine(count, a, b, c) == <<count, a, b, c>>

\* The lines of axis i: every choice of components; a fractional point
\* count and a short line on an otherwise aligned axis.
GeometryLines(i) ==
    {GeometryLine(count, t[1], t[2], t[3]) :
        count \in {NatToStr(n) : n \in 1..MaxPoints},
        t \in [1..3 -> IntervalTokens]}
    \cup {GeometryLine(count, t[1], t[2], t[3]) :
             count \in PointCountTokens,
             t \in {[d \in 1..3 |-> IF d = i THEN "0.25" ELSE "0.0"]}}
    \cup {<<"2", "0.25", "0.0">>, <<"2", "0.25", "0.0", "x">>}

InitGrid ==
    /\ molecule = <<>>
    /\ call = NoCall
    /\ field = <<>>
    /\ disk = <<>>

\* Grid(grid_input, coords_in_bohr), as Cube.__init__ calls it.
NewGrid ==
    /\ call.op = "none"
    /\ \E x \in GeometryLines(1), y \in GeometryLines(2),
          z \in GeometryLines(3), coords_in_bohr \in BOOLEAN :
          \E out \in {Grid(<<x, y, z>>, coords_in_bohr)} :
              call' = [op |-> "Grid", grid_input |-> <<x, y, z>>,
                       coords_in_bohr |-> coords_in_bohr,
                       exc |-> out.exc, grid |-> out.grid]
    /\ UNCHANGED <<molecule, field, disk>>

NextGrid == NewGrid

SpecGrid == InitGrid /\ [][NextGrid]_vars

(***************************************************************************)
(* Claims about Grid construction.                                         *)
(***************************************************************************)
GridBuilt == call.op = "Grid"

\* The three lines have four tokens each, all of them numbers, the first
\* an integer.
WellFormedGeometry ==
    \A i \in 1..3 :
        /\ Len(call.grid_input[i]) = 4
        /\ ParseInt(call.grid_input[i][1]).ok
        /\ \A d \in 2..4 : ParseFloat(call.grid_input[i][d]).ok

\* Component d of axis i, for d # i, is not zero.
HasOffDiagonal ==
    \E i \in 1..3, d \in 1..3 :
        d # i /\ ParseFloat(call.grid_input[i][d + 1]).val # <<0, 1>>

\* C11: geometry lines with a nonzero off-diagonal component still yield a
\* Grid, whose alignment flag is false; lines with every off-diagonal
\* component zero yield a Grid whose flag is true.
ClaimC11_UnalignedGridIsBuilt ==
    GridBuilt /\ WellFormedGeometry =>
        /\ call.exc = NoExc
        /\ call.grid.aligned_to_coord = ~HasOffDiagonal

\* The point count of some axis is a number that is fractional or negative.
BadPointCount ==
    \E i \in 1..3 :
        /\ Len(call.grid_input[i]) > 0
        /\ ParseFloat(call.grid_input[i][1]).ok
        /\ \/ ParseFloat(call.grid_input[i][1]).val[2] # 1
           \/ ParseFloat(call.grid_input[i][1]).val[1] < 0

\* C21: Grid construction accepts a point count only if it denotes a
\* non-negative integer: every fractional and every negative point count is
\* rejected with GridError, and no Grid with such a point count is built.
ClaimC21_BadPointCountIsGridError ==
    (GridBuilt /\ BadPointCount) =>
        /\ call.exc.kind = "GridError"
        /\ call.grid = NoGrid

(***************************************************************************)
(* cube_helpers.Field and GridField.  The values of a field are kept as    *)
(* the flat sequence numpy holds in C order (the last axis varies          *)
(* fastest); a value is a rational <<n, d>> and NaN is <<0, 0>>.           *)
(***************************************************************************)
NaN == <<0, 0>>

\* x < y for floats: every comparison with NaN is False.
FloatLess(x, y) == /\ x # NaN
                   /\ y # NaN
                   /\ x[1] * y[2] < y[1] * x[2]

RatMul(a, b) == Rat(a[1] * b[1], a[2] * b[2])

\* np.sum(values): NaN as soon as one value is NaN.
NpSum(values) ==
    IF \E i \in 1..Len(values) : values[i] = NaN THEN NaN ELSE RatSum(values)

\* _check_for_nans(values)
check_for_nans(values) ==
    IF NpSum(values) = NaN
    THEN Exc("InputFormatError", "Values contain NANs!")
    ELSE NoExc

FieldOutcome(exc, result) == [exc |-> exc, field |-> result]

\* Field.__setattr__(self, 'values', value): the check raises before the
\* attribute is set.
Field_setattr_values(self, value) ==
    IF self.check_nans /\ check_for_nans(value) # NoExc
    THEN FieldOutcome(check_for_nans(value), self)
    ELSE FieldOutcome(NoExc, [self EXCEPT !.values = value])

\* What a constructor that raised leaves behind: no object.
NoFieldObject ==
    [values |-> <<>>, grid |-> NoGrid, field_type |-> "none",
     field_info |-> <<>>, check_nans |-> TRUE]

\* GridField.__init__(values, grid, field_type, field_info, check_nans) with
\* Field.__init__: check_nans is set first, then values through __setattr__.
GridField_init(values, grid, field_type, field_info, check_nans) ==
    IF check_nans /\ check_for_nans(values) # NoExc
    THEN FieldOutcome(check_for_nans(values), NoFieldObject)
    ELSE FieldOutcome(NoExc,
                      [values |-> values, grid |-> grid,
                       field_type |-> field_type, field_info |-> field_info,
                       check_nans |-> check_nans])

\* np.prod(grid.points_on_axes)
Prod(points_on_axes) ==
    points_on_axes[1] * points_on_axes[2] * points_on_axes[3]

\* float(token) of a token of the field section; "nan" is a float literal
\* in either case.
FieldFloat(token) ==
    IF token \in {"nan", "NAN"} THEN [ok |-> TRUE, val |-> NaN]
    ELSE PyFloat(token)

\* Cube.field_from_raw(raw_field, grid)
field_from_raw(raw_field, grid) ==
    IF \E i \in 1..Len(raw_field) : ~FieldFloat(raw_field[i]).ok
    THEN [exc |-> Exc("ValueError", "could not convert string to float"),
          values |-> <<>>]
    ELSE IF Len(raw_field) # Prod(grid.points_on_axes)
    THEN [exc |-> Exc("GridError",
                      "The number of points in the cube "
                          \o NatToStr(Len(raw_field))
                          \o " is not equal to the product of number of"
                          \o " points in the XYZ directions given in the"
                          \o " cube header."),
          values |-> <<>>]
    ELSE [exc |-> NoExc,
          values |-> [i \in 1..Len(raw_field) |-> FieldFloat(raw_field[i]).val]]

\* A str seen as the sequence of its characters, which is what indexing
\* and len() of it give.
Chars(s) == [i \in 1..Len(s) |-> Char(s, i)]

\* GridField(...) on what field_from_raw returned; field_info is the str
\* 'input'.
FieldOfRaw(converted, grid, cube_type) ==
    IF converted.exc # NoExc THEN FieldOutcome(converted.exc, NoFieldObject)
    ELSE GridField_init(converted.values, grid, cube_type, Chars("input"),
                        TRUE)

\* The last statement of Cube.__init__:
\* GridField(Cube.field_from_raw(field, grid), grid, self.cube_type, 'input')
CubeField(raw_field, grid, cube_type) ==
    FieldOfRaw(field_from_raw(raw_field, grid), grid, cube_type)

\* The index along axis k (0-based) of the point at position p (1-based) of
\* the flat sequence.
AxisIndex(p, k, points_on_axes) ==
    IF k = 3 THEN (p - 1) % points_on_axes[3]
    ELSE IF k = 2 THEN ((p - 1) \div points_on_axes[3]) % points_on_axes[2]
    ELSE (p - 1) \div (points_on_axes[3] * points_on_axes[2])

\* The square of one component of the separation of p and q.
SquaredStep(p, q, k, grid) ==
    RatMul(<<(AxisIndex(p, k, grid.points_on_axes)
                 - AxisIndex(q, k, grid.points_on_axes))
             * (AxisIndex(p, k, grid.points_on_axes)
                 - AxisIndex(q, k, grid.points_on_axes)), 1>>,
           RatMul(grid.dir_intervals[k].number, grid.dir_intervals[k].number))

\* The squared distance of p and q, in the unit of the interval numbers.
SquaredDistance(p, q, grid) ==
    RatAdd(SquaredStep(p, q, 1, grid),
           RatAdd(SquaredStep(p, q, 2, grid), SquaredStep(p, q, 3, grid)))

\* The square of one component of the separation of p and the position one
\* step before the first point on every axis.
SquaredStepOutside(p, k, grid) ==
    RatMul(<<(AxisIndex(p, k, grid.points_on_axes) + 1)
             * (AxisIndex(p, k, grid.points_on_axes) + 1), 1>>,
           RatMul(grid.dir_intervals[k].number, grid.dir_intervals[k].number))

\* Where no point is 0 scipy documents no result: its feature transform
\* keeps the index -1 on every axis, and the distance is taken to there.
NoNearest(p, grid) ==
    RatAdd(SquaredStepOutside(p, 1, grid),
           RatAdd(SquaredStepOutside(p, 2, grid),
                  SquaredStepOutside(p, 3, grid)))

\* The least of a nonempty set of rationals.
Least(qs) == CHOOSE m \in qs : \A o \in qs : ~FloatLess(o, m)

\* scipy.ndimage.distance_transform_edt(field, sampling=dir_intervals): for
\* every point the distance to the nearest point whose value is 0, kept as
\* its square; a point whose value is 0 is at distance 0.
scipy_edt(binary, grid) ==
    [p \in 1..Len(binary) |->
        IF binary[p] = 0 THEN <<0, 1>>
        ELSE IF \A q \in 1..Len(binary) : binary[q] # 0
        THEN NoNearest(p, grid)
        ELSE Least({SquaredDistance(p, q, grid) :
                       q \in {r \in 1..Len(binary) : binary[r] = 0}})]

\* The selection with "<=" in place of "<".
select_iso_OrEqual(x, isovalue) ==
    IF FloatLess(x, isovalue) \/ x = isovalue THEN 1 ELSE 0

\* select_iso = lambda x: 1 if x < isovalue else 0
select_iso(x, isovalue) == IF FloatLess(x, isovalue) THEN 1 ELSE 0

\* GridField.distance_transform(isovalue)
distance_transform(self, isovalue) ==
    IF ~self.grid.aligned_to_coord
    THEN FieldOutcome(
             Exc("GridError",
                 "Distance transform not implemented for grid not aligned"
                     \o " with the coordinate system."),
             NoFieldObject)
    ELSE GridField_init(
             scipy_edt([p \in 1..Len(self.values) |->
                           select_iso(self.values[p], isovalue)],
                       self.grid),
             self.grid, "dist", <<"ed", isovalue>>, TRUE)

(***************************************************************************)
(* Fields: a field is constructed, by Cube.__init__ from the field section *)
(* of a cube file or by GridField(...) directly, and then its values are   *)
(* replaced or its distance transform is taken.  The grids are built by    *)
(* Grid(...) from geometry lines with a positive step along each axis.     *)
(***************************************************************************)
FieldShapes == {<<px, py>> : px \in 1..MaxPoints, py \in 1..2}

FieldGeometry(shape) ==
    <<GeometryLine(NatToStr(shape[1]), "0.25", "0.0", "0.0"),
      GeometryLine(NatToStr(shape[2]), "0.0", "0.5", "0.0"),
      GeometryLine("1", "0.0", "0.0", "0.25")>>

FieldGrids ==
    {Grid(FieldGeometry(shape), coords_in_bohr).grid :
        shape \in FieldShapes, coords_in_bohr \in BOOLEAN}

FieldTokens == {"0.0", "1.0", "nan"}

\* The field sections of the cube files: every section of the right length,
\* one too long, one too short, one with a token that is not a number.
RawFields(grid) ==
    [1..Prod(grid.points_on_axes) -> FieldTokens]
    \cup {[i \in 1..(Prod(grid.points_on_axes) + 1) |-> "1.0"],
          [i \in 1..(Prod(grid.points_on_axes) - 1) |-> "1.0"],
          [i \in 1..Prod(grid.points_on_axes) |-> "x"]}

\* The arrays handed to GridField(...) and assigned to values: of the
\* grid's element count, one more or one less, with and without a NaN.
NewArrays(grid) ==
    {[i \in 1..n |-> <<2, 1>>] :
        n \in (Prod(grid.points_on_axes) - 1)..(Prod(grid.points_on_axes) + 1)}
    \cup {[i \in 1..Prod(grid.points_on_axes) |->
              IF i = 1 THEN NaN ELSE <<2, 1>>]}

Isovalues == {<<1, 2>>, <<1, 1>>}

CubeTypes == {"ed", "esp"}

InitFields ==
    /\ molecule = <<>>
    /\ call = NoCall
    /\ field = <<>>
    /\ disk = <<>>

\* self.field = GridField(Cube.field_from_raw(field, grid), grid,
\*                        self.cube_type, 'input')
NewCubeField ==
    /\ call.op = "none"
    /\ \E grid \in FieldGrids, cube_type \in CubeTypes :
          \E raw_field \in RawFields(grid) :
              \E out \in {CubeField(raw_field, grid, cube_type)} :
                  /\ call' = [op |-> "Cube", raw_field |-> raw_field,
                              grid |-> grid, exc |-> out.exc]
                  /\ field' = out.field
    /\ UNCHANGED <<molecule, disk>>

\* field = GridField(values, grid, field_type, check_nans=...)
NewGridField ==
    /\ call.op = "none"
    /\ \E grid \in FieldGrids, check_nans \in BOOLEAN :
          \E values \in NewArrays(grid) :
              \E out \in {GridField_init(values, grid, "esp", <<"input">>,
                                         check_nans)} :
                  /\ call' = [op |-> "GridField", values |-> values,
                              grid |-> grid, exc |-> out.exc]
                  /\ field' = out.field
    /\ UNCHANGED <<molecule, disk>>

Constructed == call.op \in {"Cube", "GridField"} /\ call.exc = NoExc

\* field.values = value
SetValues ==
    /\ Constructed
    /\ \E value \in NewArrays(field.grid) :
          \E out \in {Field_setattr_values(field, value)} :
              /\ call' = [op |-> "values", value |-> value, before |-> field,
                          exc |-> out.exc]
              /\ field' = out.field
    /\ UNCHANGED <<molecule, disk>>

\* field.distance_transform(isovalue)
DistanceTransform ==
    /\ Constructed
    /\ \E isovalue \in Isovalues :
          \E out \in {distance_transform(field, isovalue)} :
              call' = [op |-> "distance_transform", isovalue |-> isovalue,
                       before |-> field, exc |-> out.exc,
                       result |-> out.field]
    /\ UNCHANGED <<molecule, field, disk>>

NextFields ==
    \/ NewCubeField
    \/ NewGridField
    \/ SetValues
    \/ DistanceTransform

SpecFields == InitFields /\ [][NextFields]_vars

Transformed == call.op = "distance_transform"

FieldHeld ==
    \/ Constructed
    \/ call.op \in {"values", "distance_transform"}

\* C13: in every reachable state the number of values a grid field holds is
\* the product of the three point counts of its grid; constructing a field
\* from a sequence of another length, or replacing the values of a
\* GridField by an array of another element count, is rejected with a grid
\* mismatch error (GridError).
ClaimC13_ElementCountMatchesGrid ==
    /\ FieldHeld => Len(field.values) = Prod(field.grid.points_on_axes)
    /\ /\ call.op = "Cube"
       /\ \A i \in 1..Len(call.raw_field) : FieldFloat(call.raw_field[i]).ok
       /\ Len(call.raw_field) # Prod(call.grid.points_on_axes)
       => call.exc.kind = "GridError"
    /\ /\ call.op = "GridField"
       /\ Len(call.values) # Prod(call.grid.points_on_axes)
       => call.exc.kind = "GridError"
    /\ /\ call.op = "values"
       /\ Len(call.value) # Prod(call.before.grid.points_on_axes)
       => call.exc.kind = "GridError" /\ field = call.before

\* C14: no field ever holds a NaN: every assignment to the values of a
\* field, at construction and at a later replacement, that contains a NaN
\* raises an error at the assignment and leaves the previous values in
\* place; the check is never skipped.
ClaimC14_NoFieldHoldsNaN ==
    /\ FieldHeld => \A i \in 1..Len(field.values) : field.values[i] # NaN
    /\ /\ call.op = "GridField"
       /\ \E i \in 1..Len(call.values) : call.values[i] = NaN
       => call.exc.kind = "InputFormatError"
    /\ /\ call.op = "values"
       /\ \E i \in 1..Len(call.value) : call.value[i] = NaN
       => call.exc.kind = "InputFormatError" /\ field = call.before

(***************************************************************************)
(* Atom(...) called on its own, for atomic numbers in and around the table *)
(* of elements.                                                            *)
(***************************************************************************)
ConstructedAtomicNos == (-(Len(periodic) + 1))..(Len(periodic) + 2)

ConstructedCoords == {None, Given(<<<<1, 2>>, <<0, 1>>, <<-3, 2>>>>)}

CoordsUnits == {Unspecified, Specified(TRUE), Specified(FALSE)}

InitAtoms ==
    /\ molecule = <<>>
    /\ call = NoCall
    /\ field = <<>>
    /\ disk = <<>>

\* Atom(label, atomic_no, coords, coords_in_bohr)
NewAtom ==
    /\ call.op = "none"
    /\ \E label \in 1..2, atomic_no \in ConstructedAtomicNos,
          coords \in ConstructedCoords, coords_in_bohr \in CoordsUnits :
          \E out \in {Atom_init(label, atomic_no, coords, coords_in_bohr)} :
              call' = [op |-> "Atom", label |-> label,
                       atomic_no |-> atomic_no, coords |-> coords,
                       coords_in_bohr |-> coords_in_bohr,
                       exc |-> out.exc, atom |-> out.atom]
    /\ UNCHANGED <<molecule, field, disk>>

NextAtoms == NewAtom

SpecAtoms == InitAtoms /\ [][NextAtoms]_vars

\* The symbols of the elements 1..18.
ElementSymbols ==
    <<"H", "He", "Li", "Be", "B", "C", "N", "O", "F", "Ne",
      "Na", "Mg", "Al", "Si", "P", "S", "Cl", "Ar">>

\* C19: the identity of an atom depends on its atomic number alone: for an
\* atomic number in 1..18 it is the symbol of the element, and for every
\* other atomic number (0, negative, 19, 20, ...) the construction does not
\* raise and the identity is the decimal string of the number.
ClaimC19_IdentityOfAtomicNumber ==
    (call.op = "Atom" /\ (call.coords.given => call.coords_in_bohr.given)) =>
        /\ call.exc = NoExc
        /\ call.atom.identity =
               IF call.atomic_no \in 1..Len(ElementSymbols)
               THEN ElementSymbols[call.atomic_no]
               ELSE IntToStr(call.atomic_no)

(***************************************************************************)
(* A session: update_with_charges called again and again on the molecule   *)
(* of a cube file, with reports that succeed and reports that fail.        *)
(***************************************************************************)
MaxCalls == 2

SessionCoords(i) == Given(<<<<i, 1>>, <<0, 1>>, <<-1, 2>>>>)

\* The molecule of a cube file of n carbon atoms: Atom(label, atomic_no,
\* coords, coords_in_bohr) for every atom line and charges['cube'] set.
SessionMolecule(n) ==
    update_molecule_with_charges(
        [i \in 1..n |-> Atom_init(i, 6, SessionCoords(i), Specified(TRUE)).atom],
        CubeCharges([i \in 1..n |-> 6]), "cube")

\* A well-formed report of n rows of one kind, with either set of charges.
SessionReport(kind, n, earlier) ==
    (IF kind = "sumviz" THEN <<>> ELSE Preamble)
        \o BlockHead(kind)
        \o [k \in 1..n |->
               Row(kind, k, "C",
                   IF earlier THEN EarlierChargeText(k) ELSE ChargeText(k))]
        \o <<IF kind = "sumviz" THEN DashLine
             ELSE IF kind = "nbo" THEN RuleLine ELSE SumLine>>

\* The calls made on a molecule of n atoms: well-formed reports of four
\* charge types, a report whose last row has the wrong symbol, a report
\* without the block, an unsupported extension and an unsupported charge
\* type.
SessionRequests(n) ==
    {Request(kind, "mol.log", SessionReport(kind, n, earlier)) :
        kind \in {"mulliken", "nbo", "mk"}, earlier \in BOOLEAN}
    \cup {Request("aim", "mol.sumviz", SessionReport("sumviz", n, FALSE)),
          Request("mulliken", "mol.out",
                  Preamble \o MullikenHead
                      \o [k \in 1..n |->
                             Row("mulliken", k, IF k = n THEN "H" ELSE "C",
                                 ChargeText(k))]
                      \o <<SumLine>>),
          Request("nbo", "mol.log", SessionReport("mulliken", n, FALSE)),
          Request("mulliken", "mol.txt", SessionReport("mulliken", n, FALSE)),
          Request("resp", "mol.log", SessionReport("mulliken", n, FALSE))}

InitSession ==
    /\ molecule \in {SessionMolecule(n) : n \in 1..MaxAtoms}
    /\ call = NoCall
    /\ field = <<>>
    /\ disk = <<>>

CallsMade == IF call.op = "none" THEN 0 ELSE call.n

\* One more call of update_with_charges(charge_type, filename, molecule).
UpdateAgain ==
    /\ CallsMade < MaxCalls
    /\ \E r \in SessionRequests(Len(molecule)) :
          \E out \in {update_with_charges(r.charge_type, r.filename, r.lines,
                                          molecule)} :
              /\ molecule' = out.molecule
              /\ call' = [op |-> "update_with_charges", n |-> CallsMade + 1,
                          charge_type |-> r.charge_type,
                          filename |-> r.filename, exc |-> out.exc]
    /\ UNCHANGED <<field, disk>>

NextSession == UpdateAgain

SpecSession == InitSession /\ [][NextSession]_vars

\* What one call may do to the molecule.
OnlyChargesOfTheTypeChange ==
    /\ Len(molecule') = Len(molecule)
    /\ \A i \in 1..Len(molecule) :
          /\ DOMAIN molecule[i].charges \subseteq DOMAIN molecule'[i].charges
          /\ \A key \in DOMAIN molecule[i].charges :
                key # call'.charge_type =>
                    molecule'[i].charges[key] = molecule[i].charges[key]
          /\ molecule'[i].label = molecule[i].label
          /\ molecule'[i].atomic_no = molecule[i].atomic_no
          /\ molecule'[i].coords = molecule[i].coords

\* C20: over any sequence of update_with_charges calls on a molecule,
\* successful or failing, no key leaves the charges map of an atom, a call
\* for charge type T changes the value under no other key, and no call
\* changes the label, atomic number or coordinates of an atom.
ThmC20_ChargesOnlyGrow == [][OnlyChargesOfTheTypeChange]_vars

\* A second successful call, for another charge type than the first: every
\* atom holds the cube charge and the charges of both calls.
WitC20_TwoTypesAttached ==
    /\ call.op = "update_with_charges"
    /\ call.n = 2
    /\ call.exc = NoExc
    /\ call.charge_type = "nbo"
    /\ \A i \in 1..Len(molecule) :
          DOMAIN molecule[i].charges = {"cube", "mulliken", "nbo"}

(***************************************************************************)
(* The line parsers called on their own, on one line of a charge table:    *)
(* an element symbol, a label, a charge and further fields or none.        *)
(***************************************************************************)
LineSymbols == {"C", "H", "Cl"}

LineLabels == {1, 2, 12, 104}

LineCharges == {"0.5", "-0.25", "1"}

LineExtras == {<<>>, <<"0.1">>, <<"1.99", "4.5">>}

LineChargeTypes == {"mulliken", "mk", "nbo", "aim"}

RECURSIVE JoinFields(_)
JoinFields(fields) ==
    IF fields = <<>> THEN "\n"
    ELSE "   " \o Head(fields) \o JoinFields(Tail(fields))

\* The line of a table of the charge type that shows the three parts.
TableLine(charge_type, symbol, label, charge, extra) ==
    IF charge_type = "aim"
    THEN JoinFields(<<symbol \o NatToStr(label), charge>> \o extra)
    ELSE IF charge_type = "nbo"
    THEN JoinFields(<<symbol, NatToStr(label), charge>> \o extra)
    ELSE JoinFields(<<NatToStr(label), symbol, charge>> \o extra)

InitParse ==
    /\ molecule = <<>>
    /\ call = NoCall
    /\ field = <<>>
    /\ disk = <<>>

\* _log_charge_line(line, charge_type) or _sumviz_charge_line(line,
\* charge_type), as _get_charges_from_lines picks them by input type.
ParseChargeLine ==
    /\ call.op = "none"
    /\ \E charge_type \in LineChargeTypes, symbol \in LineSymbols,
          label \in LineLabels, charge \in LineCharges, extra \in LineExtras :
          \E out \in {charge_line(IF charge_type = "aim" THEN "sumviz"
                                  ELSE "log",
                                  TableLine(charge_type, symbol, label,
                                            charge, extra),
                                  charge_type)} :
              call' = [op |-> "charge_line", charge_type |-> charge_type,
                       symbol |-> symbol, number |-> label,
                       value |-> charge, extra |-> extra,
                       exc |-> out.exc, label |-> out.label,
                       letter |-> out.letter, charge |-> out.charge]
    /\ UNCHANGED <<molecule, field, disk>>

NextParse == ParseChargeLine

SpecParse == InitParse /\ [][NextParse]_vars

\* The parser returned the three parts the line shows.
ReturnsTheParts ==
    /\ call.exc = NoExc
    /\ call.label = call.number
    /\ call.letter = call.symbol
    /\ call.charge = ParseFloat(call.value).val

\* C22: the sumviz line parser splits the first token into its symbol and
\* its whole numeric suffix: for a token made of a symbol of one or two
\* letters and a label of any number of digits it returns (label, symbol,
\* charge), the charge parsed from the second field and further fields
\* ignored.
ClaimC22_SumvizTokenSplit ==
    (call.op = "charge_line" /\ call.charge_type = "aim") => ReturnsTheParts

\* C23: the log line parser returns (label, symbol, charge) from a line
\* 'label symbol value ...extra' for every charge type handled in log
\* files, further fields ignored.
ClaimC23_LogLineExtraFieldsIgnored ==
    (call.op = "charge_line" /\ call.charge_type # "aim") => ReturnsTheParts

(***************************************************************************)
(* Field.lookup_name.  field_info is a list whose first element is a str;  *)
(* the str 'input' a Cube passes is the sequence of its characters.        *)
(***************************************************************************)
LowerCase == "abcdefghijklmnopqrstuvwxyz"

UpperCase == "ABCDEFGHIJKLMNOPQRSTUVWXYZ"

\* str.upper() and str.lower() of one character
UpperChar(c) ==
    IF FindChar(LowerCase, c, 1) = 0 THEN c
    ELSE Char(UpperCase, FindChar(LowerCase, c, 1))

LowerChar(c) ==
    IF FindChar(UpperCase, c, 1) = 0 THEN c
    ELSE Char(LowerCase, FindChar(UpperCase, c, 1))

RECURSIVE Upper(_)
Upper(s) == IF s = "" THEN "" ELSE UpperChar(Char(s, 1)) \o Upper(SubSeq(s, 2, Len(s)))

RECURSIVE Lower(_)
Lower(s) == IF s = "" THEN "" ELSE LowerChar(Char(s, 1)) \o Lower(SubSeq(s, 2, Len(s)))

\* str.capitalize()
Capitalize(s) ==
    IF s = "" THEN "" ELSE UpperChar(Char(s, 1)) \o Lower(SubSeq(s, 2, Len(s)))

\* The digits of the fraction r/d, for a d that divides a power of ten.
RECURSIVE FractionDigits(_, _)
FractionDigits(r, d) ==
    IF r = 0 THEN ""
    ELSE NatToStr((10 * r) \div d) \o FractionDigits((10 * r) % d, d)

\* str.format of a float that is a short decimal: '0.5', '1.0', '-0.25'.
FloatStr(q) ==
    (IF q[1] < 0 THEN "-" ELSE "")
        \o NatToStr(Abs(q[1]) \div q[2]) \o "."
        \o (IF Abs(q[1]) % q[2] = 0 THEN "0"
            ELSE FractionDigits(Abs(q[1]) % q[2], q[2]))

Name(exc, result) == [exc |-> exc, result |-> result]

\* str.format of field_info in the message: the parts are not rendered.
NotImplementedName(field_type) ==
    Name(Exc("NotImplementedError",
             "Free-form name not implemented for Field of type '"
                 \o field_type \o "'"),
         "")

\* field_info[0] of an empty list
NoInfo == Name(Exc("IndexError", "list index out of range"), "")

\* Field.lookup_name()
lookup_name(self) ==
    IF self.field_type \in {"esp", "ed"}
    THEN IF Len(self.field_info) < 1 THEN NoInfo
         ELSE Name(NoExc,
                   (IF self.field_type = "esp" THEN "ESP value"
                    ELSE "ED value")
                       \o (IF self.field_info[1] = "input"
                           THEN " from input cube file" ELSE ""))
    ELSE IF self.field_type = "rep_esp"
    THEN IF Len(self.field_info) < 1 THEN NoInfo
         ELSE Name(NoExc,
                   "Reproduced ESP value"
                       \o (IF self.field_info[1] # ""
                           THEN " from " \o Upper(self.field_info[1])
                                    \o " charges"
                           ELSE ""))
    ELSE IF self.field_type = "dist"
    THEN IF Len(self.field_info) < 1 THEN NoInfo
         ELSE IF self.field_info[1] = "ed"
         THEN IF Len(self.field_info) < 2 THEN NoInfo
              ELSE Name(NoExc,
                        "Distance from ED isosurface "
                            \o FloatStr(self.field_info[2]))
         ELSE Name(NoExc,
                   "Distance"
                       \o (IF self.field_info[1] = "Voronoi"
                           THEN " from closest atom" ELSE ""))
    ELSE IF self.field_type = "diff"
    THEN IF Len(self.field_info) < 2 THEN NoInfo
         ELSE Name(NoExc,
                   Capitalize(
                       "difference"
                           \o (IF IsSubstring("abs", self.field_info[1])
                               THEN "absolute" ELSE "")
                           \o (IF IsSubstring("rel", self.field_info[1])
                               THEN "relative" ELSE ""))
                       \o (IF Len(self.field_info[2]) = 2
                           THEN " between " \o self.field_info[2][1]
                                    \o " and\n " \o self.field_info[2][2]
                           ELSE ""))
    ELSE IF self.field_type = "parent_atom"
    THEN IF Len(self.field_info) < 1 THEN NoInfo
         ELSE Name(NoExc,
                   "Parent atom"
                       \o (IF self.field_info[1] = "Voronoi"
                           THEN "of Voronoi basin"
                           ELSE IF self.field_info[1] = "qtaim"
                           THEN "of QTAIM basin" ELSE ""))
    ELSE IF self.field_type = "unrecognized"
    THEN Name(NoExc, "Unrecognized")
    ELSE NotImplementedName(self.field_type)

(***************************************************************************)
(* Names: a field of some type is constructed, by Cube.__init__ with the   *)
(* type of the cube title or by GridField(...) with the field_info its     *)
(* type goes with, and lookup_name is called on it.                        *)
(***************************************************************************)
\* The values of Cube.title_to_type, and the type of any other title.
TitleTypes == {"esp", "ed", "bader", "unrecognized"}

TypedInfo(field_type, field_info) ==
    [field_type |-> field_type, field_info |-> field_info]

UsualInfos ==
    {TypedInfo("esp", <<"input">>),
     TypedInfo("rep_esp", <<"mk">>),
     TypedInfo("rep_esp", <<"">>),
     TypedInfo("dist", <<"ed", <<1, 2>>>>),
     TypedInfo("dist", <<"ed", <<-5, 4>>>>),
     TypedInfo("dist", <<"Voronoi">>),
     TypedInfo("diff", <<"abs", <<"esp", "rep_esp">>>>),
     TypedInfo("diff", <<"rel", <<"esp", "rep_esp">>>>),
     TypedInfo("parent_atom", <<"qtaim">>),
     TypedInfo("parent_atom", <<"Voronoi">>),
     TypedInfo("esp_error", <<"input">>)}

NamedValues(grid) ==
    {[i \in 1..Prod(grid.points_on_axes) |-> v] : v \in {<<0, 1>>, <<1, 1>>}}

InitNames ==
    /\ molecule = <<>>
    /\ call = NoCall
    /\ field = <<>>
    /\ disk = <<>>

\* self.field = GridField(Cube.field_from_raw(field, grid), grid,
\*                        self.cube_type, 'input')
NewTitledField ==
    /\ call.op = "none"
    /\ \E grid \in FieldGrids, cube_type \in TitleTypes, token \in {"0.0", "1.0"} :
          \E out \in {CubeField([i \in 1..Prod(grid.points_on_axes) |-> token],
                                grid, cube_type)} :
              /\ call' = [op |-> "Cube", exc |-> out.exc]
              /\ field' = out.field
    /\ UNCHANGED <<molecule, disk>>

\* field = GridField(values, grid, field_type, field_info)
NewTypedField ==
    /\ call.op = "none"
    /\ \E grid \in FieldGrids, info \in UsualInfos :
          \E values \in NamedValues(grid) :
              \E out \in {GridField_init(values, grid, info.field_type,
                                         info.field_info, TRUE)} :
                  /\ call' = [op |-> "GridField", exc |-> out.exc]
                  /\ field' = out.field
    /\ UNCHANGED <<molecule, disk>>

\* field.lookup_name()
LookupName ==
    /\ Constructed
    /\ \E out \in {lookup_name(field)} :
          call' = [op |-> "lookup_name", exc |-> out.exc,
                   result |-> out.result, before |-> field]
    /\ UNCHANGED <<molecule, field, disk>>

NextNames ==
    \/ NewTitledField
    \/ NewTypedField
    \/ LookupName

SpecNames == InitNames /\ [][NextNames]_vars

EnumeratedTypes ==
    {"esp", "ed", "bader", "rep_esp", "dist", "diff", "parent_atom",
     "unrecognized"}

\* C24: lookup_name is total over the enumerated field types: for every
\* field_type in {esp, ed, bader, rep_esp, dist, diff, parent_atom,
\* unrecognized} with the field_info the type goes with it returns a
\* display string; it raises NotImplementedError only for a field_type
\* outside that set; the field is as it was.
ClaimC24_LookupNameIsTotal ==
    call.op = "lookup_name" =>
        /\ field = call.before
        /\ IF field.field_type \in EnumeratedTypes
           THEN call.exc = NoExc /\ call.result # ""
           ELSE call.exc.kind = "NotImplementedError"

(***************************************************************************)
(* str.format of numbers as write_cube uses it.  A float is the rational   *)
(* it was read as; the last digit written is the rounded one.              *)
(***************************************************************************)
\* q * 10^k as a rational, dividing before multiplying.
TimesPow10(q, k) ==
    <<q[1] * (Pow10(k) \div GCD(q[2], Pow10(k))), q[2] \div GCD(q[2], Pow10(k))>>

\* The integer nearest to the non-negative rational q, a tie going to the
\* even one.
RoundHalfEven(q) ==
    LET lo == q[1] \div q[2]
        twice == 2 * (q[1] % q[2])
    IN  IF twice < q[2] THEN lo
        ELSE IF twice > q[2] THEN lo + 1
        ELSE IF lo % 2 = 0 THEN lo ELSE lo + 1

RatAbs(q) == <<Abs(q[1]), q[2]>>

\* The decimal digits of n, padded with zeros on the left to width w.
RECURSIVE ZeroPadded(_, _)
ZeroPadded(n, w) ==
    IF w = 0 THEN "" ELSE ZeroPadded(n \div 10, w - 1) \o NatToStr(n % 10)

\* '{: .6f}'.format(q): a space or a minus sign, then six decimals.
FormatFixed6(q) ==
    (IF q[1] < 0 THEN "-" ELSE " ")
        \o NatToStr(RoundHalfEven(TimesPow10(RatAbs(q), 6)) \div Pow10(6))
        \o "."
        \o ZeroPadded(RoundHalfEven(TimesPow10(RatAbs(q), 6)) % Pow10(6), 6)

\* The decimal exponent of a positive rational: the x with
\* 10^x <= q < 10^(x+1).
RECURSIVE Exponent(_)
Exponent(q) ==
    IF q[1] >= 10 * q[2] THEN 1 + Exponent(<<q[1], q[2] * 10>>)
    ELSE IF q[1] < q[2] THEN Exponent(<<q[1] * 10, q[2]>>) - 1
    ELSE 0

\* q / 10^x
Shifted(q, x) ==
    IF x >= 0 THEN Rat(q[1], q[2] * Pow10(x)) ELSE Rat(q[1] * Pow10(-x), q[2])

\* The six digits of the mantissa of a positive q, rounded.
Mantissa(q) == RoundHalfEven(TimesPow10(Shifted(q, Exponent(q)), 5))

SciText(sign, mantissa, exponent) ==
    sign \o NatToStr(mantissa \div Pow10(5)) \o "."
        \o ZeroPadded(mantissa % Pow10(5), 5) \o "E"
        \o (IF exponent < 0 THEN "-" ELSE "+") \o ZeroPadded(Abs(exponent), 2)

\* '{: .5E}'.format(q): the mantissa rounded to five decimals, the exponent
\* of at least two digits; a mantissa rounded up to 10 moves the exponent.
FormatSci5(q) ==
    IF q = NaN THEN " NAN"
    ELSE IF q[1] = 0 THEN SciText(" ", 0, 0)
    ELSE IF Mantissa(RatAbs(q)) = Pow10(6)
    THEN SciText(IF q[1] < 0 THEN "-" ELSE " ", Pow10(5),
                 Exponent(RatAbs(q)) + 1)
    ELSE SciText(IF q[1] < 0 THEN "-" ELSE " ", Mantissa(RatAbs(q)),
                 Exponent(RatAbs(q)))

\* '{:4}'.format(n): an integer right-aligned in four columns.
RECURSIVE Padded4(_)
Padded4(s) == IF Len(s) >= 4 THEN s ELSE Padded4(" " \o s)

(***************************************************************************)
(* Cube.__init__: the file is its lines, each ending in a newline.  Atom   *)
(* lines hold at most five fields in the files of the model.               *)
(***************************************************************************)
title_to_type(title) ==
    CASE Prefix(title, 18) = " Electrostatic pot" -> "esp"
      [] Prefix(title, 18) = " Electron density " -> "ed"
      [] Prefix(title, 18) = " Bader charge" -> "bader"
      [] OTHER -> "unrecognized"

NoCube ==
    [title |-> "", cube_type |-> "none", atom_count |-> 0,
     molecule |-> <<>>, field |-> NoFieldObject]

CubeOutcome(exc, cube) == [exc |-> exc, cube |-> cube]

CubeRaised(kind, msg) == CubeOutcome(Exc(kind, msg), NoCube)

\* The atom of one atom line: the four floats are converted first, then
\* the atomic number; charges['cube'] is the second field.
AtomOfLine(label, atom_temp, coords_in_bohr) ==
    IF Len(atom_temp) < 5
    THEN [exc |-> Exc("IndexError", "list index out of range"), atom |-> NoAtom]
    ELSE IF \E index \in 2..5 : ~PyFloat(atom_temp[index]).ok
    THEN [exc |-> Exc("ValueError", "could not convert string to float"),
          atom |-> NoAtom]
    ELSE IF ~ParseInt(atom_temp[1]).ok
    THEN [exc |-> Exc("ValueError", "invalid literal for int()"),
          atom |-> NoAtom]
    ELSE [exc |-> NoExc,
          atom |-> [Atom_init(label + 1, ParseInt(atom_temp[1]).val,
                              Given([k \in 1..3 |->
                                        PyFloat(atom_temp[k + 2]).val]),
                              Specified(coords_in_bohr)).atom
                       EXCEPT !.charges =
                                  DictSet(@, "cube", PyFloat(atom_temp[2]).val)]]

\* for label in range(self.atom_count): ... self.molecule.append(new_atom)
RECURSIVE ReadAtoms(_, _, _, _, _)
ReadAtoms(lines, label, atom_count, coords_in_bohr, mol) ==
    IF label >= atom_count THEN [exc |-> NoExc, molecule |-> mol]
    ELSE IF AtomOfLine(label, Split(ReadLine(lines, 6 + label)),
                       coords_in_bohr).exc # NoExc
    THEN [exc |-> AtomOfLine(label, Split(ReadLine(lines, 6 + label)),
                             coords_in_bohr).exc,
          molecule |-> mol]
    ELSE ReadAtoms(lines, label + 1, atom_count, coords_in_bohr,
                   Append(mol, AtomOfLine(label,
                                          Split(ReadLine(lines, 6 + label)),
                                          coords_in_bohr).atom))

\* f.read().split() from line k on
RECURSIVE ReadTokens(_, _)
ReadTokens(lines, k) ==
    IF k > Len(lines) THEN <<>>
    ELSE Split(lines[k]) \o ReadTokens(lines, k + 1)

\* The cube object once the molecule and the field are read.
CubeObject(title, atom_count, atoms, made) ==
    IF atoms.exc # NoExc THEN CubeOutcome(atoms.exc, NoCube)
    ELSE IF made.exc # NoExc THEN CubeOutcome(made.exc, NoCube)
    ELSE CubeOutcome(NoExc,
                     [title |-> title, cube_type |-> title_to_type(title),
                      atom_count |-> atom_count, molecule |-> atoms.molecule,
                      field |-> made.field])

\* From the Grid on: origin_coords, the atom lines, the field.
CubeOnGrid(lines, title, atom_count, origin_coords, built, coords_in_bohr) ==
    IF built.exc # NoExc THEN CubeOutcome(built.exc, NoCube)
    ELSE IF \E k \in 1..3 : ~PyFloat(origin_coords[k]).ok
    THEN CubeRaised("ValueError", "could not convert string to float")
    ELSE CubeObject(
             title, atom_count,
             ReadAtoms(lines, 0, atom_count, coords_in_bohr, <<>>),
             CubeField(ReadTokens(lines, 7 + Max(atom_count, 0)),
                       [built.grid EXCEPT
                           !.origin_coords =
                               [k \in 1..3 |->
                                   Interval(PyFloat(origin_coords[k]).val,
                                            coords_in_bohr)]],
                       title_to_type(title)))

\* From the third line on: atom_count, origin_coords and nval are its
\* fields; nval is 1 for a bader cube of four fields.
CubeFromHeader(lines, title, line, nval, coords_in_bohr) ==
    IF ~PyFloat(nval).ok
    THEN CubeRaised("ValueError", "could not convert string to float")
    ELSE IF PyFloat(nval).val # <<1, 1>>
    THEN CubeRaised("GridError",
                    "NVal in the cube is different than 1. Not sure what it means in practice.")
    ELSE IF ~ParseInt(line[1]).ok
    THEN CubeRaised("ValueError", "invalid literal for int()")
    ELSE CubeOnGrid(lines, title, ParseInt(line[1]).val, SubSeq(line, 2, 4),
                    Grid([k \in 1..3 |-> Split(ReadLine(lines, 2 + k))],
                         coords_in_bohr),
                    coords_in_bohr)

\* Cube(cube_fn, coords_in_bohr), cube_fn holding `lines`.
Cube_init(lines, coords_in_bohr) ==
    IF Len(Split(ReadLine(lines, 2))) = 5
    THEN CubeFromHeader(lines, RStripNL(ReadLine(lines, 1)),
                        Split(ReadLine(lines, 2)),
                        Split(ReadLine(lines, 2))[5], coords_in_bohr)
    ELSE IF /\ Len(Split(ReadLine(lines, 2))) = 4
            /\ title_to_type(RStripNL(ReadLine(lines, 1))) = "bader"
    THEN CubeFromHeader(lines, RStripNL(ReadLine(lines, 1)),
                        Split(ReadLine(lines, 2)), "1", coords_in_bohr)
    ELSE CubeRaised("InputFormatError",
                    "Cube file incorrectly formatted! Expected five fields (atom count, 3*origin coordinates, NVal) on line 3, found "
                        \o NatToStr(Len(Split(ReadLine(lines, 2)))) \o ".")

(***************************************************************************)
(* GridField.write_cube.  A coordinate is written in the unit it was read  *)
(* in: the division by angstrom_per_bohr undoes the multiplication made on *)
(* reading, and the number read is what is formatted.                      *)
(***************************************************************************)
\* The optional parameter charge_type: None, or a name.
NoType == [given |-> FALSE, name |-> ""]

OfType(name) == [given |-> TRUE, name |-> name]

\* elem/angstrom_per_bohr if write_coords_in_bohr else elem, for an elem
\* read with coords_in_bohr = write_coords_in_bohr.
WrittenNumber(elem, write_coords_in_bohr) == elem.number

\* '   {: .6f}' for each of the three numbers
ThreeFixed(elems, write_coords_in_bohr) ==
    "   " \o FormatFixed6(WrittenNumber(elems[1], write_coords_in_bohr))
        \o "   " \o FormatFixed6(WrittenNumber(elems[2], write_coords_in_bohr))
        \o "   " \o FormatFixed6(WrittenNumber(elems[3], write_coords_in_bohr))

Written(exc, lines) == [exc |-> exc, lines |-> lines]

\* The lines of the atoms from atom k on, after `lines`; an atom without
\* the charge asked for raises KeyError, one without coordinates TypeError.
RECURSIVE WriteAtoms(_, _, _, _, _)
WriteAtoms(mol, k, charge_type, write_coords_in_bohr, lines) ==
    IF k > Len(mol) THEN Written(NoExc, lines)
    ELSE IF charge_type.given /\ charge_type.name \notin DOMAIN mol[k].charges
    THEN Written(Exc("KeyError", charge_type.name), lines)
    ELSE IF ~mol[k].coords.given
    THEN Written(Exc("TypeError", "'NoneType' object is not iterable"), lines)
    ELSE WriteAtoms(
             mol, k + 1, charge_type, write_coords_in_bohr,
             Append(lines,
                    " " \o Padded4(IntToStr(mol[k].atomic_no)) \o "   "
                        \o FormatFixed6(IF charge_type.given
                                        THEN mol[k].charges[charge_type.name]
                                        ELSE <<mol[k].atomic_no, 1>>)
                        \o ThreeFixed(mol[k].coords.list, write_coords_in_bohr)
                        \o "\n"))

\* What the loop over self.values.flatten() writes from value k on, i
\* being its counter and nz the point count of the last axis.
RECURSIVE ValuesText(_, _, _, _)
ValuesText(values, k, i, nz) ==
    IF k > Len(values) THEN ""
    ELSE " " \o FormatSci5(values[k])
             \o (IF i % 6 = 0 THEN "\n" ELSE "")
             \o (IF i % nz = 0 THEN "\n" \o ValuesText(values, k + 1, 1, nz)
                 ELSE ValuesText(values, k + 1, i + 1, nz))

\* The lines of a text: each ends with its newline, but for a last one
\* that has none.
RECURSIVE LinesOf(_)
LinesOf(text) ==
    IF text = "" THEN <<>>
    ELSE IF FindChar(text, "\n", 1) = 0 THEN <<text>>
    ELSE <<SubSeq(text, 1, FindChar(text, "\n", 1))>>
             \o LinesOf(SubSeq(text, FindChar(text, "\n", 1) + 1, Len(text)))

\* The values after the lines of the atoms.
WithValues(atoms, values, nz) ==
    IF atoms.exc # NoExc THEN atoms
    ELSE Written(NoExc, atoms.lines \o LinesOf(ValuesText(values, 1, 1, nz)))

\* The two title lines, the origin line and the three axis lines.
CubeHeader(self, atom_count, write_coords_in_bohr) ==
    <<" Cube file generated by repESP.\n",
      " Cube file for field of type " \o self.field_type \o ".\n",
      " " \o Padded4(IntToStr(atom_count))
          \o ThreeFixed(self.grid.origin_coords, write_coords_in_bohr)
          \o "    1\n">>
        \o [a \in 1..3 |->
               " " \o Padded4(IntToStr(self.grid.axes[a].point_count))
                   \o ThreeFixed(self.grid.axes[a].intervals,
                                 write_coords_in_bohr)
                   \o "\n"]

\* write_cube opening the file with mode 'w'.
write_cube_Overwriting(self, exists, mol, charge_type, write_coords_in_bohr) ==
    IF Len(self.grid.origin_coords) = 0
    THEN Written(Exc("TypeError", "'NoneType' object is not iterable"),
                 <<" Cube file generated by repESP.\n",
                   " Cube file for field of type " \o self.field_type
                       \o ".\n">>)
    ELSE WithValues(
             WriteAtoms(mol, 1, charge_type, write_coords_in_bohr,
                        CubeHeader(self, Len(mol), write_coords_in_bohr)),
             self.values, self.grid.axes[3].point_count)

\* write_cube(output_fn, molecule, charge_type, write_coords_in_bohr):
\* what the file holds when the call ends; `exists` says that output_fn
\* exists, and open(output_fn, 'x') then raises before anything is written.
write_cube(self, exists, mol, charge_type, write_coords_in_bohr) ==
    IF exists THEN Written(Exc("FileExistsError", "File exists"), <<>>)
    ELSE IF Len(self.grid.origin_coords) = 0
    THEN Written(Exc("TypeError", "'NoneType' object is not iterable"),
                 <<" Cube file generated by repESP.\n",
                   " Cube file for field of type " \o self.field_type
                       \o ".\n">>)
    ELSE WithValues(
             WriteAtoms(mol, 1, charge_type, write_coords_in_bohr,
                        CubeHeader(self, Len(mol), write_coords_in_bohr)),
             self.values, self.grid.axes[3].point_count)

(***************************************************************************)
(* Cubes on disk: a cube file is parsed, its field is possibly given other *)
(* values, written with write_cube, and the written file is parsed again.  *)
(* `disk` maps a path to the lines of its file, `field` is the GridField,  *)
(* `molecule` the atoms read from the cube, `call` the last call.          *)
(***************************************************************************)
CubeShapes == {<<1, 1, 1>>, <<2, 1, 2>>, <<1, 1, 6>>, <<1, 1, 7>>}

\* The value tokens of the field section, as many as the grid has points.
ValuePool ==
    <<"0.1234567", "-2.5E-03", "0.0", "12.5", "-0.3333333", "1.0E+01",
      "9.9999996">>

\* Two geometries: the tokens of the origin and the step along each axis.
CubeGeometries ==
    {[title |-> " Electrostatic potential from Total SCF Density\n",
      origin |-> "0.0 0.0 0.0", step |-> "0.2"],
     [title |-> " Electron density from Total SCF Density\n",
      origin |-> "-1.5 0.25 0.3333333", step |-> "0.1234567"]}

AxisLine(a, count, step) ==
    " " \o NatToStr(count) \o " "
        \o (IF a = 1 THEN step ELSE "0.0") \o " "
        \o (IF a = 2 THEN step ELSE "0.0") \o " "
        \o (IF a = 3 THEN step ELSE "0.0") \o "\n"

AtomLinePool ==
    <<" 6 6.000000 0.0 0.0 0.1234567\n", " 17 -0.25 1.0 -2.5 0.0\n">>

AtomCounts == 0..2

RECURSIVE ValueLines(_, _)
ValueLines(k, n) ==
    IF k > n THEN <<>>
    ELSE <<" " \o ValuePool[k] \o "\n">> \o ValueLines(k + 1, n)

CubeFile(geometry, shape, atom_count) ==
    <<" input\n", geometry.title,
      " " \o NatToStr(atom_count) \o " " \o geometry.origin \o " 1\n">>
        \o [a \in 1..3 |-> AxisLine(a, shape[a], geometry.step)]
        \o SubSeq(AtomLinePool, 1, atom_count)
        \o ValueLines(1, shape[1] * shape[2] * shape[3])

CubeFiles ==
    {CubeFile(geometry, shape, atom_count) :
        geometry \in CubeGeometries, shape \in CubeShapes,
        atom_count \in AtomCounts}

\* Arrays assigned to field.values after the parse.
AssignedValues == {<<<<1, 4>>>>, <<<<1, 1>>, <<-3, 2>>, <<7, 100>>, <<0, 1>>>>}

CubePaths == {"in.cub", "out.cub"}

WrittenChargeTypes == {NoType, OfType("cube"), OfType("mk")}

\* disk with `lines` at `path`
DiskWith(files, path, lines) ==
    [p \in DOMAIN files \cup {path} |-> IF p = path THEN lines ELSE files[p]]

CubeCall(op, exc, output_fn, coords_in_bohr, existed, cube) ==
    [op |-> op, exc |-> exc, output_fn |-> output_fn,
     coords_in_bohr |-> coords_in_bohr, existed |-> existed, cube |-> cube]

InitCubes ==
    /\ molecule = <<>>
    /\ call = NoCall
    /\ field = <<>>
    /\ disk = <<>>

\* Cube('in.cub', coords_in_bohr) on a file of the input set
ParseCube ==
    /\ call.op = "none"
    /\ \E lines \in CubeFiles, coords_in_bohr \in BOOLEAN :
         \E out \in {Cube_init(lines, coords_in_bohr)} :
           /\ out.exc = NoExc
           /\ molecule' = out.cube.molecule
           /\ field' = out.cube.field
           /\ disk' = DiskWith(disk, "in.cub", lines)
           /\ call' = CubeCall("Cube", NoExc, "in.cub", coords_in_bohr,
                               FALSE, NoCube)

\* field.values = value
AssignValues ==
    /\ call.op = "Cube"
    /\ \E value \in AssignedValues :
         \E out \in {Field_setattr_values(field, value)} :
           /\ field' = out.field
           /\ call' = CubeCall("values", out.exc, call.output_fn,
                               call.coords_in_bohr, FALSE, NoCube)
    /\ UNCHANGED <<molecule, disk>>

\* field.write_cube(output_fn, molecule, charge_type, coords_in_bohr)
WriteCube ==
    /\ call.op \in {"Cube", "values", "write_cube"}
    /\ \E output_fn \in CubePaths, charge_type \in WrittenChargeTypes :
         \E out \in {write_cube(field, output_fn \in DOMAIN disk, molecule,
                                charge_type, call.coords_in_bohr)} :
           /\ disk' = IF out.exc.kind = "FileExistsError" THEN disk
                      ELSE DiskWith(disk, output_fn, out.lines)
           /\ call' = CubeCall("write_cube", out.exc, output_fn,
                               call.coords_in_bohr,
                               output_fn \in DOMAIN disk, NoCube)
    /\ UNCHANGED <<molecule, field>>

\* Cube(output_fn, coords_in_bohr) on the file just written
ParseWritten ==
    /\ call.op = "write_cube"
    /\ call.exc = NoExc
    /\ \E out \in {Cube_init(disk[call.output_fn], call.coords_in_bohr)} :
         call' = CubeCall("Cube_written", out.exc, call.output_fn,
                          call.coords_in_bohr, FALSE, out.cube)
    /\ UNCHANGED <<molecule, field, disk>>

NextCubes == ParseCube \/ AssignValues \/ WriteCube \/ ParseWritten

SpecCubes == InitCubes /\ [][NextCubes]_vars

\* |a - b|, on the common denominator
RatAbsDiff(a, b) ==
    Rat(Abs(a[1] * (LCM(a[2], b[2]) \div a[2])
                - b[1] * (LCM(a[2], b[2]) \div b[2])),
        LCM(a[2], b[2]))

WithinHalf(q) == 2 * q[1] <= q[2]

\* b is a within half a unit of the sixth decimal
CloseFixed6(a, b) == WithinHalf(TimesPow10(RatAbsDiff(a, b), 6))

\* b is a within half a unit of the sixth significant digit of a
CloseSci5(a, b) ==
    \/ a = b
    \/ /\ a # NaN
       /\ b # NaN
       /\ a[1] # 0
       /\ WithinHalf(TimesPow10(RatAbsDiff(a, b), 5 - Exponent(RatAbs(a))))

CloseCoords(xs, ys) ==
    /\ Len(xs) = Len(ys)
    /\ \A k \in 1..Len(xs) :
         /\ xs[k].times_angstrom_per_bohr = ys[k].times_angstrom_per_bohr
         /\ CloseFixed6(xs[k].number, ys[k].number)

SameGeometry(g, h) ==
    /\ CloseCoords(g.origin_coords, h.origin_coords)
    /\ \A a \in 1..3 :
         /\ g.axes[a].point_count = h.axes[a].point_count
         /\ CloseCoords(g.axes[a].intervals, h.axes[a].intervals)

SameValues(v, w) ==
    /\ Len(v) = Len(w)
    /\ \A k \in 1..Len(v) : CloseSci5(v[k], w[k])

SameAtoms(mol, cube) ==
    /\ cube.atom_count = Len(mol)
    /\ Len(cube.molecule) = Len(mol)
    /\ \A k \in 1..Len(mol) :
         /\ cube.molecule[k].atomic_no = mol[k].atomic_no
         /\ CloseCoords(mol[k].coords.list, cube.molecule[k].coords.list)

RoundTrip ==
    /\ call.exc = NoExc
    /\ SameGeometry(field.grid, call.cube.field.grid)
    /\ SameValues(field.values, call.cube.field.values)
    /\ SameAtoms(molecule, call.cube)

\* C25: once a field is written with write_cube and the written file is
\* parsed with Cube, the parse succeeds and gives the grid geometry, the
\* values in their order and the atoms of what was written, up to the
\* precision of the written numbers.
ClaimC25_RoundTrip == call.op = "Cube_written" => RoundTrip

\* The same for a field that holds as many values as its grid has points.
RoundTripOfFullField ==
    (call.op = "Cube_written"
        /\ Len(field.values) = Prod(field.grid.points_on_axes))
        => RoundTrip

RoundTripHappens ==
    /\ call.op = "Cube_written"
    /\ RoundTrip
    /\ Len(molecule) = 2
    /\ Len(field.values) = 7
    /\ field.values[1] # call.cube.field.values[1]

\* A call of write_cube on a path that exists.
WriteToExisting == call'.op = "write_cube" /\ call'.existed

\* C27: write_cube on a destination path that exists raises
\* FileExistsError and writes nothing: no file is created and the content
\* of every file, the existing one included, stays as it was.
ThmC27_ExistingFileIsKept ==
    [][WriteToExisting
          => (call'.exc.kind = "FileExistsError" /\ disk' = disk)]_vars

WitC27_WriteOnTheParsedFile ==
    /\ call.op = "write_cube"
    /\ call.existed
    /\ call.exc.kind = "FileExistsError"
    /\ call.output_fn = "in.cub"
    /\ disk["in.cub"] \in CubeFiles

(***************************************************************************)
(* _goto_in_sumviz, step by step.  `disk` holds the lines of the report    *)
(* the file object reads; call.pos is the number of lines read, call.line  *)
(* the line the while loop has read and is about to test, call.phase where *)
(* the function is ("while": about to read, "test": about to compare,      *)
(* "for": in the for loop) and call.i the counter of the for loop.         *)
(* readline() at the end of the file returns '' and leaves the position    *)
(* where it is.                                                            *)
(***************************************************************************)
MaxStreamLines == 4

StreamLinePool ==
    {"Some Atomic Properties:\n", "Some Atomic Properties: \n", " C1  0.5\n"}

SumvizStreams == UNION {[1..n -> StreamLinePool] : n \in 0..MaxStreamLines}

\* file_object.readline() after pos lines were read
readline(lines, pos) == IF pos < Len(lines) THEN lines[pos + 1] ELSE ""

InitSumviz ==
    /\ molecule = <<>>
    /\ field = <<>>
    /\ disk \in {[path \in {"report.sumviz"} |-> lines] :
                    lines \in SumvizStreams}
    /\ call = [op |-> "_goto_in_sumviz", phase |-> "while", pos |-> 0,
               line |-> "", i |-> 0]

\* file_object.readline() in the condition of the while loop
ReadInWhile ==
    /\ call.op = "_goto_in_sumviz"
    /\ call.phase = "while"
    /\ call' = [call EXCEPT
                   !.pos = Min(call.pos + 1, Len(disk["report.sumviz"])),
                   !.line = readline(disk["report.sumviz"], call.pos),
                   !.phase = "test"]
    /\ UNCHANGED <<molecule, field, disk>>

\* ... .rstrip('\n') != 'Some Atomic Properties:': the loop goes on (pass)
\* or ends
TestSentinel ==
    /\ call.op = "_goto_in_sumviz"
    /\ call.phase = "test"
    /\ call' = [call EXCEPT
                   !.phase = IF RStripNL(call.line) # SumvizSentinel
                             THEN "while" ELSE "for"]
    /\ UNCHANGED <<molecule, field, disk>>

\* for i in range(9): file_object.readline(); then the function returns
ReadInFor ==
    /\ call.op = "_goto_in_sumviz"
    /\ call.phase = "for"
    /\ call' = [call EXCEPT
                   !.pos = Min(call.pos + 1, Len(disk["report.sumviz"])),
                   !.i = call.i + 1,
                   !.phase = IF call.i + 1 = SumvizSkip THEN "returned"
                             ELSE "for"]
    /\ UNCHANGED <<molecule, field, disk>>

NextSumviz == ReadInWhile \/ TestSentinel \/ ReadInFor

SpecSumviz == InitSumviz /\ [][NextSumviz]_vars

\* The interpreter keeps running the function until it returns.
SpecSumvizRun == SpecSumviz /\ WF_vars(NextSumviz)

\* C28: on every finite stream, with the sentinel line or without it,
\* _goto_in_sumviz comes to an end.
ClaimC28_SumvizLocatorTerminates == <>(call.phase = "returned")

\* With the sentinel in the stream the function does return.
HasSentinel ==
    \E k \in 1..Len(disk["report.sumviz"]) :
        RStripNL(disk["report.sumviz"][k]) = SumvizSentinel

ReturnsWhenSentinelPresent == HasSentinel ~> (call.phase = "returned")

\* Without it the function is in its while loop for ever.
ScansForEverWithoutSentinel ==
    [](~HasSentinel => call.phase \in {"while", "test"})

\* Where the steps leave the stream is where goto_in_sumviz puts it.
StepsAgreeWithGoto ==
    call.phase = "returned"
        => /\ goto_in_sumviz("aim", disk["report.sumviz"]).exc = NoExc
           /\ goto_in_sumviz("aim", disk["report.sumviz"]).pos = call.pos

====
